---- MODULE Spec2Model ----
(***************************************************************************)
(* A model of the interactive-element detection pass (window.domTreeResult) *)
(* Scores are kept in hundredths of a point (x100), so that the fractional *)
(* bonuses of getElementPriority (0.5, len/20, zIndex/100) stay integers.  *)
(* Lengths are CSS pixels.  Node ids are in document order.                *)
(***************************************************************************)
EXTENDS Integers, Sequences, FiniteSets, TLC

VARIABLES
    dom,                    \* the rendered tree: node id -> element record
    win,                    \* window and documentElement metrics
    args,                   \* the options of domTreeResult(args)
    pc,                     \* position inside the pass
    passNo,                 \* number of the pass being run (1-based)
    highlightIndex,         \* the pass counter (let highlightIndex)
    processedElementAreas,  \* the processed-area ledger
    result,                 \* the descriptor list being built
    queue,                  \* candidateElements / shadowCandidates, sorted, not yet resolved
    ctx,                    \* the document being processed: [iframe, aborted]
    iframesLeft,            \* iframes of the main document still to visit
    container,              \* the highlight container: [exists, children]
    lastResult,             \* interactiveElements returned by the previous pass
    lastDup,                \* the last isDuplicateInteractiveElement call: [el, before, dup]
    DOM_CACHE,              \* the cache object of the running call
    thrown,                 \* the last call of domTreeResult ended with an exception
    now,                    \* Date.now()
    sizeEpoch,              \* how many times the window size has changed
    analyzer,               \* the last call of window.analyzer: [state, value]
    posted,                 \* the messages given to window.postMessage
    lastCall,               \* the previous pass: [args, win, overlays]
    clearLog,               \* the last call of DOM_CACHE.clearCache on the live cache object
    probe,                  \* the last call of a single function: [fn, node, iframe, value]
    content                 \* the content script: [loaded, runs, scripts, sent, messages]

vars == <<dom, win, args, pc, passNo, highlightIndex, processedElementAreas, result,
          queue, ctx, iframesLeft, container, lastResult, lastDup,
          DOM_CACHE, thrown, now, sizeEpoch, analyzer, posted, lastCall,
          clearLog, probe, content>>

\* What a pass leaves alone: the clock, the window size history, and its caller.
world == <<now, sizeEpoch>>
caller == <<analyzer, posted, lastCall, clearLog, probe, content>>

\* ------------------------------------------------------------------ bounds
MaxPasses == 2

\* ------------------------------------------------------------------ helpers
Max2(a, b) == IF a >= b THEN a ELSE b
Min2(a, b) == IF a <= b THEN a ELSE b

Nodes == 1..Len(dom)

RECURSIVE SeqSum(_)
SeqSum(s) == IF s = <<>> THEN 0 ELSE Head(s) + SeqSum(Tail(s))

\* The ids of a set of nodes as a sequence in document order.
RECURSIVE InDocOrder(_)
InDocOrder(S) ==
    IF S = {} THEN <<>>
    ELSE LET m == CHOOSE x \in S : \A y \in S : x <= y
         IN <<m>> \o InDocOrder(S \ {m})

\* String.prototype.trim over a text kept as a sequence of characters.
RECURSIVE TrimLeft(_)
TrimLeft(s) == IF s # <<>> /\ Head(s) = " " THEN TrimLeft(Tail(s)) ELSE s

RECURSIVE TrimRight(_)
TrimRight(s) ==
    IF s # <<>> /\ s[Len(s)] = " " THEN TrimRight(SubSeq(s, 1, Len(s) - 1)) ELSE s

Trim(s) == TrimRight(TrimLeft(s))

\* ------------------------------------------------------------------ the tree
\* An element with every attribute absent; the templates below override fields.
\* fault names the host query that raises an exception for this element: "rect"
\* (getBoundingClientRect), "style" (getComputedStyle), "hit" (elementFromPoint at its
\* centre), or "none".
Elem0 ==
    [ tag |-> "div", id |-> "", htmlFor |-> "", role |-> "", ariaRole |-> "", type |-> "",
      tabindex |-> "", labelledby |-> <<>>, describedby |-> <<>>,
      attrs |-> {}, classes |-> {}, idWords |-> {}, labelWords |-> {},
      text |-> <<>>, cursor |-> "auto", zAuto |-> TRUE, zIndex |-> 0, position |-> "static",
      border |-> FALSE, background |-> FALSE, styleVisible |-> TRUE,
      inlineDisplayNone |-> FALSE, listeners |-> {}, inlineHandlers |-> {},
      rect |-> [left |-> 0, top |-> 0, width |-> 0, height |-> 0],
      parent |-> 0, root |-> 0, frame |-> "", shadowHost |-> FALSE,
      clientWidth |-> 0, clientHeight |-> 0, scrollWidth |-> 0, scrollHeight |-> 0,
      overflow |-> "visible", overflowX |-> "visible", overflowY |-> "visible",
      fault |-> "none" ]

Right(r)  == r.left + r.width
Bottom(r) == r.top + r.height
Area(r)   == r.width * r.height

\* Element.children: the element children inside the same tree scope.
Children(n) == { m \in Nodes : dom[m].parent = n /\ dom[m].root = dom[n].root }

\* Node.textContent: the element's own text followed by its descendants' text.
RECURSIVE TextOfAll(_)
TextContent(n) == dom[n].text \o TextOfAll(InDocOrder(Children(n)))
TextOfAll(s) == IF s = <<>> THEN <<>> ELSE TextContent(Head(s)) \o TextOfAll(Tail(s))

\* el.textContent?.trim()
TrimmedText(n) == Trim(TextContent(n))

\* The substrings of interest that a class token contains ([class*=..], includes()).
ClassWords(c) ==
    CASE c = "button"        -> {"button"}
      [] c = "btn"           -> {"btn"}
      [] c = "btn-primary"   -> {"btn"}
      [] c = "nav-btn"       -> {"btn"}
      [] c = "ot-sdk-button" -> {"button"}
      [] c = "accept-button" -> {"button"}
      [] c = "reject-button" -> {"button"}
      [] c = "link"          -> {"link"}
      [] c = "form-control"  -> {"control"}
      [] c = "clickable"     -> {"clickable"}
      [] c = "selectable"    -> {"selectable"}
      [] c = "interactive"   -> {"interactive"}
      [] c = "draggable-row" -> {"draggable"}
      [] c = "cookie"        -> {"cookie"}
      [] c = "consent"       -> {"consent"}
      [] c = "onetrust"      -> {"onetrust"}
      [] OTHER               -> {}

ClassIncludes(n, w) == \E c \in dom[n].classes : w \in ClassWords(c)

HasAttr(n, a) == a \in dom[n].attrs

\* The candidate selector of processElementsInDocument / processShadowDOMElements.
MatchesSelector(n) ==
    \/ dom[n].tag \in {"a", "button", "input", "select", "textarea", "canvas", "summary",
                       "details", "label", "menu", "menuitem", "option"}
    \/ dom[n].role # ""
    \/ dom[n].tabindex # ""
    \/ HasAttr(n, "onclick")
    \/ HasAttr(n, "contenteditable")
    \/ dom[n].classes \cap {"button", "dropdown-toggle", "nav-btn"} # {}
    \/ ClassIncludes(n, "btn")
    \/ HasAttr(n, "aria-haspopup") \/ HasAttr(n, "data-toggle")
    \/ HasAttr(n, "aria-expanded") \/ HasAttr(n, "aria-pressed")
    \/ HasAttr(n, "draggable")
    \/ ClassIncludes(n, "draggable") \/ ClassIncludes(n, "control")
    \/ ClassIncludes(n, "interactive") \/ ClassIncludes(n, "clickable")
    \/ HasAttr(n, "data-action")

\* doc.querySelectorAll(selector): the matching nodes of one tree scope, in document order.
QuerySelectorAll(doc) == InDocOrder({ n \in Nodes : dom[n].root = doc /\ MatchesSelector(n) })

\* ------------------------------------------------------------------ host capabilities
\* parentElement chain of a node, the node itself first.
RECURSIVE Chain(_)
Chain(n) == IF n = 0 THEN <<>> ELSE <<n>> \o Chain(dom[n].parent)

ChainSet(n) == { Chain(n)[i] : i \in 1..Len(Chain(n)) }

\* The document a node is rendered in: 0 for the top document, else its iframe element.
RECURSIVE DocOf(_)
DocOf(n) ==
    IF dom[n].root = 0 THEN 0
    ELSE IF dom[dom[n].root].tag = "iframe" THEN dom[n].root
    ELSE DocOf(dom[n].root)

\* A hit inside a shadow tree is reported as the shadow host (event retargeting).
RECURSIVE Retarget(_)
Retarget(n) ==
    IF dom[n].root # 0 /\ dom[dom[n].root].tag # "iframe" THEN Retarget(dom[n].root) ELSE n

\* The visible size of a document: the window, or the box of its iframe element.
DocWidth(doc)  == IF doc = 0 THEN win.innerWidth ELSE dom[doc].rect.width
DocHeight(doc) == IF doc = 0 THEN win.innerHeight ELSE dom[doc].rect.height

\* A point is kept as twice its coordinates, so that a box centre is an integer.
Covers(n, x2, y2) ==
    /\ dom[n].styleVisible /\ dom[n].rect.width > 0 /\ dom[n].rect.height > 0
    /\ 2 * dom[n].rect.left <= x2 /\ x2 < 2 * Right(dom[n].rect)
    /\ 2 * dom[n].rect.top <= y2 /\ y2 < 2 * Bottom(dom[n].rect)

\* An inserted overlay node that accepts pointer events lies over the point (the
\* highlight container is fixed at the highest z-index of the top document).
OverlayAt(x2, y2) ==
    \E i \in 1..Len(container.children) :
        LET o == container.children[i]
        IN /\ o.pointerEvents # "none" /\ o.width > 0 /\ o.height > 0
           /\ 2 * o.left <= x2 /\ x2 < 2 * (o.left + o.width)
           /\ 2 * o.top <= y2 /\ y2 < 2 * (o.top + o.height)

\* document.elementFromPoint: -1 is null (a point outside the document's viewport),
\* 0 is an element outside the modelled nodes (body), else the topmost node painted there:
\* the highest z-index, and among equals the last in document order.
ElementFromPoint(doc, x2, y2) ==
    IF x2 < 0 \/ y2 < 0 \/ x2 >= 2 * DocWidth(doc) \/ y2 >= 2 * DocHeight(doc) THEN -1
    ELSE IF doc = 0 /\ OverlayAt(x2, y2) THEN 0
    ELSE LET hit == { n \in Nodes : DocOf(n) = doc /\ Covers(n, x2, y2) }
         IN IF hit = {} THEN 0
            ELSE Retarget(CHOOSE n \in hit : \A m \in hit :
                            \/ dom[m].zIndex < dom[n].zIndex
                            \/ (dom[m].zIndex = dom[n].zIndex /\ m <= n))

CenterX2(r) == 2 * r.left + r.width
CenterY2(r) == 2 * r.top + r.height

\* ------------------------------------------------------------------ VisibilityClassifier
IsInViewport(n) ==
    IF args.viewportExpansion = -1 THEN TRUE
    ELSE LET r == dom[n].rect
             e == args.viewportExpansion
         IN ~ ( \/ Bottom(r) < -e
                \/ r.top > win.innerHeight + e
                \/ Right(r) < -e
                \/ r.left > win.innerWidth + e )

IsElementInIframeViewport(n, iframe) ==
    IF args.viewportExpansion = -1 THEN TRUE
    ELSE LET f == dom[iframe].rect
             r == dom[n].rect
             e == args.viewportExpansion
             absoluteTop == f.top + r.top
             absoluteLeft == f.left + r.left
         IN ~ ( \/ absoluteTop + r.height < -e
                \/ absoluteTop > win.innerHeight + e
                \/ absoluteLeft + r.width < -e
                \/ absoluteLeft > win.innerWidth + e )

IsHiddenFileInput(n) ==
    /\ dom[n].tag = "input" /\ dom[n].type = "file"
    /\ ("hidden" \in dom[n].classes \/ dom[n].inlineDisplayNone)

IsElementVisible(n) ==
    IF dom[n].rect.width = 0 /\ dom[n].rect.height = 0
    THEN IsHiddenFileInput(n)
    ELSE dom[n].styleVisible

IsTopElement(n) ==
    LET r == dom[n].rect
        isInViewportArea ==
            /\ r.left < win.innerWidth /\ Right(r) > 0
            /\ r.top < win.innerHeight /\ Bottom(r) > 0
        topEl == ElementFromPoint(0, CenterX2(r), CenterY2(r))
    IN IF ~isInViewportArea THEN FALSE
       ELSE IF topEl = -1 THEN FALSE
       ELSE n \in ChainSet(topEl)

IsTopElementWithIframeSupport(n, iframe) ==
    IF iframe = 0 THEN IsTopElement(n)
    ELSE LET f == dom[iframe].rect
             r == dom[n].rect
             iframeElementAtPoint ==
                 ElementFromPoint(0, 2 * f.left + CenterX2(r), 2 * f.top + CenterY2(r))
             elementAtPoint == ElementFromPoint(DocOf(n), CenterX2(r), CenterY2(r))
         IN IF iframeElementAtPoint = -1 THEN FALSE
            ELSE IF iframe \notin ChainSet(iframeElementAtPoint) THEN FALSE
            ELSE IF elementAtPoint = -1 THEN FALSE
            ELSE n \in ChainSet(elementAtPoint)

\* The same tests when a host query may raise: "yes", "no", or "throw" when the
\* exception leaves the test.
RectThrows(n) == dom[n].fault = "rect"
StyleThrows(n) == dom[n].fault = "style"
HitThrows(n) == dom[n].fault = "hit"

Answer(b) == IF b THEN "yes" ELSE "no"

\* isInViewport / isElementInIframeViewport (the latter catches and answers false).
ViewportOutcome(n, iframe) ==
    IF args.viewportExpansion = -1 THEN "yes"
    ELSE IF iframe = 0
         THEN (IF RectThrows(n) THEN "throw" ELSE Answer(IsInViewport(n)))
    ELSE IF RectThrows(n) \/ RectThrows(iframe) THEN "no"
    ELSE Answer(IsElementInIframeViewport(n, iframe))

\* isElementVisible: the style is read, outside any try, unless the box is 0 x 0.
VisibleOutcome(n) ==
    IF dom[n].rect.width = 0 /\ dom[n].rect.height = 0 THEN Answer(IsHiddenFileInput(n))
    ELSE IF StyleThrows(n) THEN "throw"
    ELSE Answer(dom[n].styleVisible)

\* Variant of the topmost test that answers false for every failure inside an iframe.
TopOutcomeFalseOnFailure(n, iframe) ==
    IF iframe = 0
    THEN (IF RectThrows(n) THEN "throw"
          ELSE IF HitThrows(n) THEN "no"
          ELSE Answer(IsTopElement(n)))
    ELSE IF RectThrows(n) \/ RectThrows(iframe) \/ HitThrows(n) THEN "no"
    ELSE Answer(IsTopElementWithIframeSupport(n, iframe))

\* isTopElementWithIframeSupport: in the top document the rect is read outside the try
\* and a failing hit test answers false; in an iframe every failure answers true.
TopOutcome(n, iframe) ==
    IF iframe = 0
    THEN (IF RectThrows(n) THEN "throw"
          ELSE IF HitThrows(n) THEN "no"
          ELSE Answer(IsTopElement(n)))
    ELSE IF RectThrows(n) \/ RectThrows(iframe) \/ HitThrows(n) THEN "yes"
    ELSE Answer(IsTopElementWithIframeSupport(n, iframe))

\* ------------------------------------------------------------------ InteractivityClassifier
OnclickProp(n) == HasAttr(n, "onclick") \/ "click" \in dom[n].inlineHandlers

InteractiveTags ==
    {"a", "button", "details", "embed", "input", "menu", "menuitem", "object", "select",
     "textarea", "canvas", "summary", "dialog", "banner"}

InteractiveRoles ==
    {"button-icon", "dialog", "button-text-icon-only", "treeitem", "alert", "grid",
     "progressbar", "radio", "checkbox", "menuitem", "option", "switch", "dropdown",
     "scrollbar", "combobox", "a-button-text", "button", "region", "textbox", "tabpanel",
     "tab", "click", "button-text", "spinbutton", "a-button-inner", "link", "menu",
     "slider", "listbox", "a-dropdown-button", "button-icon-only", "searchbox",
     "menuitemradio", "tooltip", "tree", "menuitemcheckbox"}

\* The listeners the click check sees: the live registry when it answers, nothing when
\* the registry is missing, the inline on<type> properties when the registry throws.
GetEventListeners(n) ==
    CASE win.registry = "ok"     -> dom[n].listeners
      [] win.registry = "absent" -> {}
      [] OTHER                   -> dom[n].inlineHandlers

\* element.closest(..) finds a banner container: the node or an ancestor is one.
BannerAncestor(a) ==
    \/ "onetrust" \in dom[a].idWords \/ ClassIncludes(a, "onetrust")
    \/ HasAttr(a, "data-nosnippet") \/ "cookie" \in dom[a].labelWords

ConsentAncestor(a) ==
    \/ dom[a].idWords \cap {"cookie", "consent", "onetrust"} # {}
    \/ ClassIncludes(a, "cookie") \/ ClassIncludes(a, "consent")

IsContentEditableProp(n) == \E a \in ChainSet(n) : HasAttr(a, "contenteditable")

\* Variant of the class check that looks for the substring "btn".
HasAddressInputClassBySubstring(n) ==
    \/ dom[n].classes \cap {"address-input__container__input", "pull-left"} # {}
    \/ ClassIncludes(n, "btn")

\* hasAddressInputClass: one of three class tokens is present.
HasAddressInputClass(n) ==
    dom[n].classes \cap {"address-input__container__input", "nav-btn", "pull-left"} # {}

IsInteractiveElement(n) ==
    LET e == dom[n]
        isInteractiveCursor ==
            e.tag # "html" /\ e.cursor \in {"pointer", "move", "text", "grab", "cell"}
        bannerButton ==
            /\ \E a \in ChainSet(n) : BannerAncestor(a)
            /\ \/ e.tag = "button" \/ e.role = "button" \/ OnclickProp(n)
               \/ e.classes \cap {"ot-sdk-button", "accept-button", "reject-button"} # {}
               \/ e.labelWords \cap {"accept", "reject"} # {}
        dropdownMarker ==
            \/ "button" \in e.classes \/ "dropdown-toggle" \in e.classes
            \/ HasAttr(n, "data-index") \/ HasAttr(n, "data-toggle")
            \/ HasAttr(n, "aria-haspopup")
        hasInteractiveRole ==
            \/ HasAddressInputClass(n)
            \/ e.tag \in InteractiveTags
            \/ e.role \in InteractiveRoles
            \/ e.ariaRole \in InteractiveRoles
            \/ (e.tabindex # "" /\ e.tabindex # "-1"
                    /\ ~(e.parent = 0 /\ DocOf(n) = e.root))
            \/ HasAttr(n, "data-action")
        isCookieBanner ==
            \/ e.idWords \cap {"cookie", "consent", "notice"} # {}
            \/ e.classes \cap {"otCenterRounded", "ot-sdk-container"} # {}
            \/ HasAttr(n, "data-nosnippet")
            \/ e.labelWords \cap {"cookie", "consent"} # {}
            \/ (e.tag = "div" /\ (\/ "onetrust" \in e.idWords
                                  \/ e.classes \cap {"onetrust", "cookie", "consent"} # {}))
        consentButton ==
            /\ \E a \in ChainSet(n) : ConsentAncestor(a)
            /\ \/ e.tag = "button" \/ e.role = "button" \/ "button" \in e.classes
               \/ OnclickProp(n)
        hasClickHandler ==
            \/ OnclickProp(n)
            \/ HasAttr(n, "ng-click") \/ HasAttr(n, "@click") \/ HasAttr(n, "v-on:click")
        hasClickListeners ==
            GetEventListeners(n) \cap
                {"click", "mousedown", "mouseup", "touchstart", "touchend"} # {}
        hasAriaProps ==
            \/ HasAttr(n, "aria-expanded") \/ HasAttr(n, "aria-pressed")
            \/ HasAttr(n, "aria-selected") \/ HasAttr(n, "aria-checked")
        isContentEditable ==
            \/ IsContentEditableProp(n) \/ "tinymce" \in e.idWords
            \/ "mce-content-body" \in e.classes
        isDraggable ==
            \/ HasAttr(n, "draggable") \/ e.tag = "img" \/ (e.tag = "a" /\ HasAttr(n, "href"))
    IN IF n = 0 THEN FALSE
       ELSE IF e.role = "presentation" THEN FALSE
       ELSE IF isInteractiveCursor THEN TRUE
       ELSE IF bannerButton THEN TRUE
       ELSE IF dropdownMarker THEN TRUE
       ELSE IF hasInteractiveRole THEN TRUE
       ELSE IF isCookieBanner THEN TRUE
       ELSE IF consentButton THEN TRUE
       ELSE hasAriaProps \/ hasClickHandler \/ hasClickListeners
                \/ isDraggable \/ isContentEditable

\* isInteractiveElement when the style query may raise: the cursor test reads the style
\* of every element but html, after the role="presentation" exit.
InteractiveOutcome(n) ==
    IF n = 0 \/ dom[n].role = "presentation" THEN "no"
    ELSE IF dom[n].tag # "html" /\ StyleThrows(n) THEN "throw"
    ELSE Answer(IsInteractiveElement(n))

\* ------------------------------------------------------------------ PriorityScorer
\* tagPriority[tag]; -1 stands for a tag the table does not hold (undefined).
TagPriority(tag) ==
    CASE tag \in {"a", "button", "input", "select", "textarea"} -> 10
      [] tag \in {"canvas", "video", "audio", "summary", "dialog"} -> 9
      [] tag \in {"label", "option", "fieldset", "details", "li", "td", "th", "menu"} -> 8
      [] tag \in {"tr", "form", "img"} -> 7
      [] tag = "div" -> 5
      [] tag = "p" -> 4
      [] tag \in {"span", "hr"} -> 3
      [] tag = "i" -> 2
      [] tag = "br" -> 1
      [] OTHER -> -1

\* rolePriority[role]; -1 stands for a role the table does not hold.
RolePriority(role) ==
    CASE role \in {"button", "link"} -> 10
      [] role \in {"menuitem", "tab", "checkbox", "radio", "combobox", "switch", "textbox",
                   "searchbox", "dialog"} -> 9
      [] role \in {"spinbutton", "slider", "tabpanel", "toolbar", "menu", "menubar",
                   "treeitem", "listitem", "gridcell"} -> 8
      [] role \in {"tooltip", "row", "cell"} -> 7
      [] role = "img" -> 6
      [] role = "presentation" -> 2
      [] role = "none" -> 1
      [] OTHER -> -1

\* getElementPriority(el), in hundredths of a point.
GetElementPriority(n) ==
    IF n = 0 THEN 0
    ELSE
    LET e == dom[n]
        tagP == IF TagPriority(e.tag) = -1 THEN 5 ELSE TagPriority(e.tag)
        roleP == IF RolePriority(e.role) = -1 THEN 0 ELSE RolePriority(e.role)
        B(c, v) == IF c THEN v ELSE 0
        len == Len(TrimmedText(n))
        area == Area(e.rect)
    IN 100 * Max2(tagP, roleP)
       + B(IsContentEditableProp(n), 500)
       + B(OnclickProp(n), 400)
       + B(HasAttr(n, "href"), IF e.tag = "a" THEN 400 ELSE 200)
       + B(HasAttr(n, "aria-expanded"), 300)
       + B(HasAttr(n, "aria-controls"), 300)
       + B(HasAttr(n, "aria-checked"), 300)
       + B(HasAttr(n, "aria-selected"), 300)
       + B(HasAttr(n, "aria-pressed"), 300)
       + B(HasAttr(n, "aria-haspopup"), 200)
       + B(e.labelWords # {} \/ HasAttr(n, "aria-label"), 100)
       + B(e.type \in {"submit", "button"}, 300)
       + B(HasAttr(n, "placeholder"), 100)
       + B(HasAttr(n, "required"), 100)
       + B(HasAttr(n, "draggable"), 200)
       + B(e.tabindex # "" /\ e.tabindex # "-1", 200)
       + B(HasAttr(n, "data-action"), 200)
       + B(HasAttr(n, "data-toggle"), 200)
       + B(HasAttr(n, "data-target"), 100)
       + B(e.id # "", 100)
       + B(HasAttr(n, "name"), 100)
       + (IF len > 0 THEN Min2(200, 5 * len)
          ELSE IF e.tag \in {"div", "span"} /\ Children(n) = {} THEN -300 ELSE 0)
       + B(e.cursor = "pointer", 200)
       + B(e.cursor \in {"grab", "grabbing"}, 200)
       + B(e.border, 50)
       + B(e.background, 50)
       + B(~e.zAuto /\ e.zIndex > 1, Min2(100, e.zIndex))
       + B(e.position \in {"fixed", "absolute"}, 100)
       + (IF area > 10000 THEN 100
          ELSE IF area < 400 /\ e.tag \notin {"button", "input"} THEN -100 ELSE 0)
       + B(\E w \in {"btn", "button", "link", "control", "clickable", "selectable",
                     "interactive"} : ClassIncludes(n, w), 200)

\* ------------------------------------------------------------------ DeduplicationResolver
OverlapX(r, a) == Max2(0, Min2(Right(r), a.right) - Max2(r.left, a.left))
OverlapY(r, a) == Max2(0, Min2(Bottom(r), a.bottom) - Max2(r.top, a.top))

RectArea(a) == (a.right - a.left) * (a.bottom - a.top)

AsArea(r) == [left |-> r.left, top |-> r.top, right |-> Right(r), bottom |-> Bottom(r)]

Abs(x) == IF x < 0 THEN -x ELSE x

\* One record of processedElementAreas; priority 0 and isScrollbar FALSE stand for
\* the fields the push leaves out.
AreaRecord(n, priority, isScrollbar) ==
    [left |-> dom[n].rect.left, top |-> dom[n].rect.top,
     right |-> Right(dom[n].rect), bottom |-> Bottom(dom[n].rect),
     element |-> n, priority |-> priority, isScrollbar |-> isScrollbar]

\* splice(i, 1)
RemoveAt(s, i) == SubSeq(s, 1, i - 1) \o SubSeq(s, i + 1, Len(s))

\* Variant of the fast-path test without its score clause.
IsHighPriorityByTagOnly(n) ==
    \/ (HasAttr(n, "contenteditable") /\ dom[n].rect.width >= 15 /\ dom[n].rect.height >= 15)
    \/ (dom[n].tag \in {"input", "textarea", "select"}
            /\ dom[n].rect.width >= 15 /\ dom[n].rect.height >= 15)

IsHighPriorityElement(n) ==
    LET r == dom[n].rect
        big == r.width >= 15 /\ r.height >= 15
    IN \/ GetElementPriority(n) >= 1200
       \/ (HasAttr(n, "contenteditable") /\ big)
       \/ (dom[n].tag \in {"input", "textarea", "select"} /\ big)

\* Variant of the ancestor decision without the icon-in-button case.
AncestorVerdictWithoutIconCase(n, p, priorityDiff, elementText, parentText) ==
    LET elementTag == dom[n].tag
        parentTag == dom[p].tag
    IN IF (elementTag = "a" /\ parentTag = "li") \/ (elementTag = "li" /\ parentTag = "a")
       THEN "keep"
       ELSE IF elementTag = "button" /\ parentTag = "form" THEN "keep"
       ELSE IF elementTag = "input" /\ parentTag = "label" THEN "keep"
       ELSE IF priorityDiff > 300 THEN "keep"
       ELSE IF priorityDiff < -100 THEN "duplicate"
       ELSE IF 10 * Area(dom[n].rect) < 2 * Area(dom[p].rect) THEN "keep"
       ELSE IF /\ elementText # <<>> /\ elementText # parentText
               /\ 10 * Len(elementText) < 7 * Len(parentText)
            THEN "keep"
       ELSE "duplicate"

\* Variant of the ancestor decision that compares the scores before the pattern cases.
AncestorVerdictScoreFirst(n, p, priorityDiff, elementText, parentText) ==
    LET elementTag == dom[n].tag
        parentTag == dom[p].tag
    IN IF priorityDiff > 300 THEN "keep"
       ELSE IF priorityDiff < -100 THEN "duplicate"
       ELSE IF (elementTag = "a" /\ parentTag = "li") \/ (elementTag = "li" /\ parentTag = "a")
       THEN "keep"
       ELSE IF elementTag = "button" /\ parentTag = "form" THEN "keep"
       ELSE IF elementTag = "input" /\ parentTag = "label" THEN "keep"
       ELSE IF elementTag \in {"i", "span"} /\ (parentTag = "button" \/ dom[p].role = "button")
            THEN "duplicate"
       ELSE IF 10 * Area(dom[n].rect) < 2 * Area(dom[p].rect) THEN "keep"
       ELSE IF /\ elementText # <<>> /\ elementText # parentText
               /\ 10 * Len(elementText) < 7 * Len(parentText)
            THEN "keep"
       ELSE "duplicate"

\* One interactive ancestor that contains the candidate: "duplicate" (return true),
\* "keep" (break) as decided by the pattern cases, the priority difference, the size
\* ratio and the texts.
AncestorVerdict(n, p, priorityDiff, elementText, parentText) ==
    LET elementTag == dom[n].tag
        parentTag == dom[p].tag
    IN IF (elementTag = "a" /\ parentTag = "li") \/ (elementTag = "li" /\ parentTag = "a")
       THEN "keep"
       ELSE IF elementTag = "button" /\ parentTag = "form" THEN "keep"
       ELSE IF elementTag = "input" /\ parentTag = "label" THEN "keep"
       ELSE IF elementTag \in {"i", "span"} /\ (parentTag = "button" \/ dom[p].role = "button")
            THEN "duplicate"
       ELSE IF priorityDiff > 300 THEN "keep"
       ELSE IF priorityDiff < -100 THEN "duplicate"
       ELSE IF 10 * Area(dom[n].rect) < 2 * Area(dom[p].rect) THEN "keep"
       ELSE IF /\ elementText # <<>> /\ elementText # parentText
               /\ 10 * Len(elementText) < 7 * Len(parentText)
            THEN "keep"
       ELSE "duplicate"

\* The candidate has more than 85% of its area inside the box of ancestor p.
ContainedIn(n, p) ==
    100 * (OverlapX(dom[n].rect, AsArea(dom[p].rect))
              * OverlapY(dom[n].rect, AsArea(dom[p].rect))) > 85 * Area(dom[n].rect)

\* The ancestor walk of isDuplicateInteractiveElement from ancestor p upwards:
\* TRUE when an interactive ancestor makes the candidate a duplicate (return true),
\* FALSE when the walk ends or breaks.
RECURSIVE AncestorRejects(_, _)
AncestorRejects(n, p) ==
    IF p = 0 THEN FALSE
    ELSE IF ~(IsInteractiveElement(p) /\ ContainedIn(n, p))
         THEN AncestorRejects(n, dom[p].parent)
    ELSE AncestorVerdict(n, p, GetElementPriority(n) - GetElementPriority(p),
                         TrimmedText(n), TrimmedText(p)) = "duplicate"

\* The tie-break cascade of the overlap loop.
OverlapHeuristics(n, ex, pa, elementText, existingText, elementP, existingP) ==
    LET elementArea == Area(dom[n].rect)
        processedElementArea == RectArea(pa)
        tagsKnown == elementP # -1 /\ existingP # -1
    IN IF /\ dom[n].tag \in {"i", "span"} /\ elementText = <<>>
          /\ (dom[ex].tag = "button" \/ dom[ex].role = "button")
       THEN "reject"
       ELSE IF /\ elementText # <<>> /\ existingText # <<>>
               /\ 2 * Len(existingText) > 3 * Len(elementText)
       THEN "reject"
       ELSE IF /\ elementText # <<>> /\ existingText # <<>>
               /\ 2 * Len(elementText) > 3 * Len(existingText)
       THEN "replace"
       ELSE IF tagsKnown /\ existingP > elementP + 2 THEN "reject"
       ELSE IF tagsKnown /\ elementP > existingP + 2 THEN "replace"
       ELSE IF processedElementArea > elementArea * 3 THEN "reject"
       ELSE IF elementArea > processedElementArea * 3 THEN "replace"
       ELSE "reject"

\* The decision by z-index and by priority difference, else the cascade.
OverlapVerdict(n, ex, pa, priorityDiff) ==
    LET rect == dom[n].rect
        samePlace ==
            /\ Abs(rect.left - pa.left) < 3 /\ Abs(rect.top - pa.top) < 3
            /\ Abs(rect.width - (pa.right - pa.left)) < 3
            /\ Abs(rect.height - (pa.bottom - pa.top)) < 3
        \* parseInt(style.zIndex || '0') is NaN for 'auto': every comparison is false
        zKnown == ~dom[n].zAuto /\ ~dom[ex].zAuto
    IN IF samePlace /\ zKnown /\ dom[n].zIndex > dom[ex].zIndex + 1 THEN "replace"
       ELSE IF samePlace /\ zKnown /\ dom[ex].zIndex > dom[n].zIndex + 1 THEN "reject"
       ELSE IF priorityDiff > 200 THEN "replace"
       ELSE IF priorityDiff < -50 THEN "reject"
       ELSE OverlapHeuristics(n, ex, pa, TrimmedText(n), TrimmedText(ex),
                              TagPriority(dom[n].tag), TagPriority(dom[ex].tag))

\* The comparison of a candidate with one ledger record (one iteration of the overlap
\* loop): "next" (continue, record kept), "replace" (splice the record, continue) or
\* "reject" (return true).
CompareWithProcessed(n, pa) ==
    LET rect == dom[n].rect
        overlapX == OverlapX(rect, pa)
        overlapY == OverlapY(rect, pa)
        smallerArea == Min2(Area(rect), RectArea(pa))
    IN IF overlapX <= 0 \/ overlapY <= 0 THEN "next"
       ELSE IF ~(10 * (overlapX * overlapY) > 6 * smallerArea) THEN "next"
       ELSE IF pa.element = 0 THEN "next"
       ELSE OverlapVerdict(n, pa.element, pa,
                GetElementPriority(n)
                  - (IF pa.priority # 0 THEN pa.priority ELSE GetElementPriority(pa.element)))

\* The overlap loop from index i on: the verdict and the ledger it leaves.
RECURSIVE OverlapLoop(_, _, _)
OverlapStep(n, ledger, i, verdict) ==
    CASE verdict = "reject"  -> [dup |-> TRUE, ledger |-> ledger]
      [] verdict = "replace" -> OverlapLoop(n, RemoveAt(ledger, i), i)
      [] OTHER               -> OverlapLoop(n, ledger, i + 1)

OverlapLoop(n, ledger, i) ==
    IF i > Len(ledger)
    THEN [dup |-> FALSE, ledger |-> Append(ledger, AreaRecord(n, 0, FALSE))]
    ELSE OverlapStep(n, ledger, i, CompareWithProcessed(n, ledger[i]))

\* The ancestor walk raises: the style of an ancestor, or the rect of an interactive
\* ancestor, cannot be read before the walk reaches its verdict.
RECURSIVE AncestorWalkThrows(_, _)
AncestorWalkThrows(n, p) ==
    IF p = 0 THEN FALSE
    ELSE IF InteractiveOutcome(p) = "throw" THEN TRUE
    ELSE IF InteractiveOutcome(p) = "no" THEN AncestorWalkThrows(n, dom[p].parent)
    ELSE IF RectThrows(p) THEN TRUE
    ELSE IF ~ContainedIn(n, p) THEN AncestorWalkThrows(n, dom[p].parent)
    ELSE FALSE

\* isDuplicateInteractiveElement raises instead of returning.
DuplicateCheckThrows(n) ==
    /\ ~(dom[n].rect.width < 5 \/ dom[n].rect.height < 5)
    /\ ~IsHighPriorityElement(n)
    /\ AncestorWalkThrows(n, dom[n].parent)

\* isDuplicateInteractiveElement(element, rect) against a ledger: the verdict and the
\* ledger after the call.
IsDuplicateInteractiveElement(n, ledger) ==
    IF dom[n].rect.width < 5 \/ dom[n].rect.height < 5
    THEN [dup |-> TRUE, ledger |-> ledger]
    ELSE IF IsHighPriorityElement(n)
    THEN [dup |-> FALSE,
          ledger |-> Append(ledger, AreaRecord(n, GetElementPriority(n), FALSE))]
    ELSE IF AncestorRejects(n, dom[n].parent)
    THEN [dup |-> TRUE, ledger |-> ledger]
    ELSE OverlapLoop(n, ledger, 1)

\* ------------------------------------------------------------------ ElementDescriptorBuilder
IsFormControl(n) == dom[n].tag \in {"input", "select", "textarea"}

\* document.querySelector('label[for="<id>"]'): the first such label of the top document,
\* 0 when there is none.
ExplicitLabel(n) ==
    LET ls == { l \in Nodes : /\ DocOf(l) = 0 /\ dom[l].root = 0 /\ dom[l].tag = "label"
                              /\ dom[l].htmlFor = dom[n].id }
    IN IF dom[n].id = "" \/ ls = {} THEN 0 ELSE CHOOSE l \in ls : \A m \in ls : l <= m

\* The nearest label among the ancestors p, p.parentElement, ..; 0 when there is none.
RECURSIVE ImplicitLabel(_)
ImplicitLabel(p) ==
    IF p = 0 THEN 0
    ELSE IF dom[p].tag = "label" THEN p
    ELSE ImplicitLabel(dom[p].parent)

\* textContent of the clone of a label from which every input, select, textarea and
\* button descendant was removed.
RECURSIVE StrippedOfAll(_)
StrippedText(n) ==
    IF dom[n].tag \in {"input", "select", "textarea", "button"} THEN <<>>
    ELSE dom[n].text \o StrippedOfAll(InDocOrder(Children(n)))
StrippedOfAll(s) ==
    IF s = <<>> THEN <<>> ELSE StrippedText(Head(s)) \o StrippedOfAll(Tail(s))

\* Variant of the label text that keeps the text of the controls.
CloneTextWithControls(l) == TextContent(l)

CloneTextWithoutControls(l) == dom[l].text \o StrippedOfAll(InDocOrder(Children(l)))

\* The label fields addContextualRelationships sets (methods 1 and 2) from the
\* label[for] found (0 if none), its trimmed text and the nearest enclosing label
\* (0 if none); an absent labelText is the empty text, an absent labelElement is 0.
LabelFields(explicit, explicitText, implicit) ==
    IF explicitText # <<>> THEN [labelText |-> explicitText, labelElement |-> explicit]
    ELSE IF implicit # 0
         THEN [labelText |-> Trim(CloneTextWithoutControls(implicit)),
               labelElement |-> implicit]
    ELSE [labelText |-> <<>>, labelElement |-> explicit]

ExplicitLabelText(explicit) == IF explicit = 0 THEN <<>> ELSE TrimmedText(explicit)

LabelOf(n) ==
    IF ~IsFormControl(n) THEN [labelText |-> <<>>, labelElement |-> 0]
    ELSE LabelFields(ExplicitLabel(n), ExplicitLabelText(ExplicitLabel(n)),
                     ImplicitLabel(dom[n].parent))

BoundingRect(r) == [top |-> r.top, left |-> r.left, width |-> r.width, height |-> r.height]

\* A descriptor with the optional fields absent.
Desc0 ==
    [ src |-> 0, tagName |-> "", highlightIndex |-> 0,
      boundingRect |-> [top |-> 0, left |-> 0, width |-> 0, height |-> 0],
      labelText |-> <<>>, labelElement |-> 0,
      ariaLabelledbyText |-> <<>>, ariaLabelledbyElements |-> <<>>,
      ariaDescribedbyText |-> <<>>, ariaDescribedbyElements |-> <<>>,
      inIframe |-> 0, shadowHost |-> 0, isIframe |-> FALSE, crossDomain |-> FALSE,
      isHiddenFileInput |-> FALSE, isScrollRegion |-> FALSE, isMainScrollbar |-> FALSE,
      maxScrollTop |-> 0, maxScrollLeft |-> 0, isOverlayScrollbar |-> FALSE ]

WithLabel(desc, label) ==
    [desc EXCEPT !.labelText = label.labelText, !.labelElement = label.labelElement]

\* document.getElementById(id): the first element of the top document with that id,
\* 0 when there is none.
GetElementById(id) ==
    LET es == { e \in Nodes : DocOf(e) = 0 /\ dom[e].root = 0 /\ dom[e].id = id }
    IN IF id = "" \/ es = {} THEN 0 ELSE CHOOSE e \in es : \A m \in es : e <= m

\* The targets found for a list of ids (methods 3 and 4), in the order of the list.
RECURSIVE Targets(_)
Targets(ids) ==
    IF ids = <<>> THEN <<>>
    ELSE (IF GetElementById(Head(ids)) = 0 THEN <<>> ELSE <<GetElementById(Head(ids))>>)
            \o Targets(Tail(ids))

\* labelTexts: the trimmed text of each target.
RECURSIVE TargetTexts(_)
TargetTexts(ids) ==
    IF ids = <<>> THEN <<>>
    ELSE (IF GetElementById(Head(ids)) = 0 THEN <<>>
          ELSE << TrimmedText(GetElementById(Head(ids))) >>) \o TargetTexts(Tail(ids))

\* texts.join(' '); no text at all leaves the field absent (empty here).
RECURSIVE JoinTexts(_)
JoinTexts(texts) ==
    IF texts = <<>> THEN <<>>
    ELSE IF Len(texts) = 1 THEN Head(texts)
    ELSE Head(texts) \o <<" ">> \o JoinTexts(Tail(texts))

\* Methods 3 and 4 of addContextualRelationships, for a form control.
WithAria(desc, n) ==
    IF ~IsFormControl(n) THEN desc
    ELSE [desc EXCEPT !.ariaLabelledbyText = JoinTexts(TargetTexts(dom[n].labelledby)),
                      !.ariaLabelledbyElements = Targets(dom[n].labelledby),
                      !.ariaDescribedbyText = JoinTexts(TargetTexts(dom[n].describedby)),
                      !.ariaDescribedbyElements = Targets(dom[n].describedby)]

\* Variant of the descriptor builder that falls back on the aria-labelledby text when
\* no label gave a text.
CreateElementDataWithFallback(n, index) ==
    LET d == WithAria(WithLabel([Desc0 EXCEPT !.src = n, !.tagName = dom[n].tag,
                                              !.highlightIndex = index,
                                              !.boundingRect = BoundingRect(dom[n].rect)],
                                LabelOf(n)), n)
    IN IF d.labelText = <<>> THEN [d EXCEPT !.labelText = d.ariaLabelledbyText] ELSE d

CreateElementData(n, index) ==
    WithAria(WithLabel([Desc0 EXCEPT !.src = n, !.tagName = dom[n].tag,
                                     !.highlightIndex = index,
                                     !.boundingRect = BoundingRect(dom[n].rect)],
                       LabelOf(n)), n)

\* ------------------------------------------------------------------ highlighting
ShouldHighlight(index) ==
    /\ args.doHighlightElements
    /\ (args.focusHighlightIndex < 0 \/ args.focusHighlightIndex = index)

\* A node appended to the highlight container; pointer-events is set to none on the
\* container and on every overlay, and inherited by the labels.
OverlayNode(kind, index, top, left, width, height) ==
    [kind |-> kind, index |-> index, top |-> top, left |-> left,
     width |-> width, height |-> height, pointerEvents |-> "none"]

\* highlightElement: the container after the overlay and the label of one element were
\* appended (the container is created on first use).
HighlightElement(c, n, index, iframe) ==
    LET top == dom[n].rect.top + (IF iframe = 0 THEN 0 ELSE dom[iframe].rect.top)
        left == dom[n].rect.left + (IF iframe = 0 THEN 0 ELSE dom[iframe].rect.left)
        width == dom[n].rect.width
        height == dom[n].rect.height
        small == width < 24 \/ height < 20
    IN [exists |-> TRUE,
        children |-> c.children \o
            << OverlayNode("overlay", index, top, left, width, height),
               OverlayNode("label", index,
                           IF small THEN top - 18 ELSE top + 2,
                           IF small THEN left + width - 20 ELSE left + width - 22,
                           20, 16) >>]

\* highlightScrollbar: one overlay per scrollbar of positive thickness (its thumb is
\* counted with it), then the label.
HighlightScrollbar(c, index, vertical, horizontal, barWidth, barHeight) ==
    LET v == IF vertical /\ barWidth > 0
             THEN << OverlayNode("vbar", index, 0, 0, barWidth, 0) >> ELSE <<>>
        h == IF horizontal /\ barHeight > 0
             THEN << OverlayNode("hbar", index, 0, 0, 0, barHeight) >> ELSE <<>>
    IN [exists |-> TRUE,
        children |-> c.children \o v \o h \o << OverlayNode("label", index, 0, 0, 20, 16) >>]

\* ------------------------------------------------------------------ emission
\* The mutable pass state threaded through the emitting loops.
Acc(res, idx, cont, ledger) == [result |-> res, index |-> idx, container |-> cont,
                                ledger |-> ledger]

\* Variant of the emission that forgets highlightIndex++.
EmitWithoutIncrement(acc, desc, hlNode, iframe) ==
    [acc EXCEPT !.result = Append(acc.result, desc)]

\* result.push(elementData); highlight if asked; highlightIndex++.
Emit(acc, desc, hlNode, iframe) ==
    [acc EXCEPT !.result = Append(acc.result, desc),
                !.container = IF ShouldHighlight(acc.index)
                              THEN HighlightElement(acc.container, hlNode, acc.index, iframe)
                              ELSE acc.container,
                !.index = acc.index + 1]

\* ------------------------------------------------------------------ BoundaryTraversal
\* One iteration of the first loop of a scan: the four filters in the order the scan
\* applies them, then the read of the rect: "pass" (pushed as a candidate), "skip"
\* (continue) or "throw" (an exception leaves the loop).
AndThen(outcome, rest) ==
    IF outcome = "yes" THEN rest ELSE IF outcome = "throw" THEN "throw" ELSE "skip"

\* Variant of the first loop that tests visibility before the viewport.
ScanOutcomeVisibleFirst(n, iframe) ==
    AndThen(VisibleOutcome(n),
      AndThen(ViewportOutcome(n, iframe),
        AndThen(TopOutcome(n, iframe),
          AndThen(InteractiveOutcome(n),
            IF RectThrows(n) THEN "throw" ELSE "pass"))))

ScanOutcome(n, iframe) ==
    AndThen(ViewportOutcome(n, iframe),
      AndThen(VisibleOutcome(n),
        AndThen(TopOutcome(n, iframe),
          AndThen(InteractiveOutcome(n),
            IF RectThrows(n) THEN "throw" ELSE "pass"))))

PassesFilters(n, iframe) == ScanOutcome(n, iframe) = "pass"

\* The first loop over the nodes s raises.
ScanThrows(s, iframe) == \E i \in 1..Len(s) : ScanOutcome(s[i], iframe) = "throw"

RECURSIVE FilterSeq(_, _)
FilterSeq(s, iframe) ==
    IF s = <<>> THEN <<>>
    ELSE (IF PassesFilters(Head(s), iframe) THEN <<Head(s)>> ELSE <<>>)
            \o FilterSeq(Tail(s), iframe)

\* Array.prototype.sort by area, ascending and stable.
RECURSIVE InsertByArea(_, _)
InsertByArea(s, n) ==
    IF s = <<>> THEN <<n>>
    ELSE IF Area(dom[n].rect) < Area(dom[Head(s)].rect) THEN <<n>> \o s
    ELSE <<Head(s)>> \o InsertByArea(Tail(s), n)

RECURSIVE SortByArea(_)
SortByArea(s) ==
    IF s = <<>> THEN <<>>
    ELSE InsertByArea(SortByArea(SubSeq(s, 1, Len(s) - 1)), s[Len(s)])

\* candidateElements of a document, or shadowCandidates of a shadow root, after the sort.
Candidates(scope, iframe) == SortByArea(FilterSeq(QuerySelectorAll(scope), iframe))

\* processHiddenFileInputs: the first ancestor that is topmost and visible, 0 if none,
\* -1 when one of the two tests raises.
RECURSIVE VisibleParent(_, _)
VisibleParent(p, iframe) ==
    IF p = 0 THEN 0
    ELSE IF TopOutcome(p, iframe) = "throw" THEN -1
    ELSE IF TopOutcome(p, iframe) = "no" THEN VisibleParent(dom[p].parent, iframe)
    ELSE IF VisibleOutcome(p) = "throw" THEN -1
    ELSE IF VisibleOutcome(p) = "yes" THEN p
    ELSE VisibleParent(dom[p].parent, iframe)

\* The iteration for one hidden file input raises: in the search for its visible parent,
\* or when createElementData reads the rect of the input.
FileInputThrows(fileInput, visibleParent) ==
    visibleParent = -1 \/ (visibleParent # 0 /\ RectThrows(fileInput))

HiddenFileInputs(doc) == InDocOrder({ n \in Nodes : dom[n].root = doc /\ IsHiddenFileInput(n) })

\* One hidden file input: emitted with the box of its visible parent, which is also the
\* node highlighted; nothing when there is no visible parent.
EmitFileInput(acc, fileInput, visibleParent, iframe) ==
    IF visibleParent = 0 THEN acc
    ELSE Emit(acc,
              [CreateElementData(fileInput, acc.index) EXCEPT
                  !.boundingRect = BoundingRect(dom[visibleParent].rect),
                  !.isHiddenFileInput = TRUE,
                  !.inIframe = iframe],
              visibleParent, iframe)

\* The whole loop runs inside one try: an exception ends it, keeping what it emitted.
RECURSIVE ProcessHiddenFileInputs(_, _, _)
ProcessHiddenFileInputs(acc, inputs, iframe) ==
    IF inputs = <<>> THEN acc
    ELSE IF FileInputThrows(Head(inputs), VisibleParent(dom[Head(inputs)].parent, iframe))
    THEN acc
    ELSE ProcessHiddenFileInputs(
             EmitFileInput(acc, Head(inputs),
                           VisibleParent(dom[Head(inputs)].parent, iframe), iframe),
             Tail(inputs), iframe)

\* ------------------------------------------------------------------ ScrollbarDetector
HasVerticalScrollbar(n) ==
    /\ dom[n].scrollHeight > dom[n].clientHeight
    /\ (dom[n].overflow \in {"scroll", "auto"} \/ dom[n].overflowY \in {"scroll", "auto"})

HasHorizontalScrollbar(n) ==
    /\ dom[n].scrollWidth > dom[n].clientWidth
    /\ (dom[n].overflow \in {"scroll", "auto"} \/ dom[n].overflowX \in {"scroll", "auto"})

\* offsetWidth - clientWidth and offsetHeight - clientHeight (the layout box is the rect).
ScrollbarWidth(n)  == dom[n].rect.width - dom[n].clientWidth
ScrollbarHeight(n) == dom[n].rect.height - dom[n].clientHeight

\* The checks of findScrollableElements that come before the duplicate check.
IsScrollRegion(n) ==
    /\ IsInViewport(n) /\ IsElementVisible(n)
    /\ ~(dom[n].clientWidth < 10 \/ dom[n].clientHeight < 10)
    /\ (HasVerticalScrollbar(n) \/ HasHorizontalScrollbar(n))
    /\ IsTopElement(n)
    /\ ~( \/ (HasVerticalScrollbar(n) /\ ScrollbarWidth(n) < 1)
          \/ (HasHorizontalScrollbar(n) /\ ScrollbarHeight(n) < 1) )

\* Variant of the scroll-region duplicate check that compares with every record.
ScrollDuplicateOfAnyRecord(n, ledger) ==
    \E i \in 1..Len(ledger) :
        /\ OverlapX(dom[n].rect, ledger[i]) > 0 /\ OverlapY(dom[n].rect, ledger[i]) > 0
        /\ 10 * (OverlapX(dom[n].rect, ledger[i]) * OverlapY(dom[n].rect, ledger[i]))
              > 8 * Min2(Area(dom[n].rect), RectArea(ledger[i]))

\* The duplicate check of a scroll region: only scrollbar-flagged records count.
ScrollDuplicate(n, ledger) ==
    \E i \in 1..Len(ledger) :
        LET pa == ledger[i]
            rect == dom[n].rect
            overlapArea == OverlapX(rect, pa) * OverlapY(rect, pa)
            smallerArea == Min2(Area(rect), RectArea(pa))
        IN /\ pa.isScrollbar
           /\ OverlapX(rect, pa) > 0 /\ OverlapY(rect, pa) > 0
           /\ 10 * overlapArea > 8 * smallerArea

\* Variant of the scroll-region descriptor that reports the content height as maxScrollTop.
ScrollbarDataWithContentHeight(n, index) ==
    [Desc0 EXCEPT !.src = n, !.tagName = "scrollbar", !.highlightIndex = index,
                  !.boundingRect = BoundingRect(dom[n].rect),
                  !.isScrollRegion = TRUE,
                  !.maxScrollTop = dom[n].scrollHeight,
                  !.maxScrollLeft = dom[n].scrollWidth]

ScrollbarData(n, index) ==
    [Desc0 EXCEPT !.src = n, !.tagName = "scrollbar", !.highlightIndex = index,
                  !.boundingRect = BoundingRect(dom[n].rect),
                  !.isScrollRegion = TRUE,
                  !.maxScrollTop = dom[n].scrollHeight - dom[n].clientHeight,
                  !.maxScrollLeft = dom[n].scrollWidth - dom[n].clientWidth]

EmitScrollRegion(acc, n) ==
    [acc EXCEPT
        !.ledger = Append(acc.ledger, AreaRecord(n, 0, TRUE)),
        !.result = Append(acc.result, ScrollbarData(n, acc.index)),
        !.container =
            IF ShouldHighlight(acc.index)
            THEN HighlightScrollbar(acc.container, acc.index,
                                    HasVerticalScrollbar(n), HasHorizontalScrollbar(n),
                                    ScrollbarWidth(n), ScrollbarHeight(n))
            ELSE acc.container,
        !.index = acc.index + 1]

\* The iteration of findScrollableElements for n raises: in isInViewport, in
\* isElementVisible, or in isTopElement once n is known to have a scrollbar.
ScrollCheckThrows(n) ==
    \/ ViewportOutcome(n, 0) = "throw"
    \/ /\ ViewportOutcome(n, 0) = "yes"
       /\ \/ VisibleOutcome(n) = "throw"
          \/ /\ VisibleOutcome(n) = "yes"
             /\ ~(dom[n].clientWidth < 10 \/ dom[n].clientHeight < 10)
             /\ (HasVerticalScrollbar(n) \/ HasHorizontalScrollbar(n))
             /\ RectThrows(n)

\* The whole loop runs inside one try: an exception ends it, keeping what it emitted.
RECURSIVE FindScrollableElements(_, _)
FindScrollableElements(acc, elements) ==
    IF elements = <<>> THEN acc
    ELSE IF ScrollCheckThrows(Head(elements)) THEN acc
    ELSE FindScrollableElements(
             IF /\ IsScrollRegion(Head(elements)) /\ ~HitThrows(Head(elements))
                /\ ~ScrollDuplicate(Head(elements), acc.ledger)
             THEN EmitScrollRegion(acc, Head(elements)) ELSE acc,
             Tail(elements))

\* Variant of the main scrollbar descriptor whose box keeps the measured thickness.
MainScrollbarDataWithoutMinimum(vertical, index) ==
    LET thickness == IF vertical THEN win.innerWidth - win.clientWidth
                     ELSE win.innerHeight - win.clientHeight
    IN [Desc0 EXCEPT
           !.tagName = IF vertical THEN "scrollbar:main-vertical"
                       ELSE "scrollbar:main-horizontal",
           !.highlightIndex = index,
           !.boundingRect =
               IF vertical
               THEN [top |-> 0, left |-> win.innerWidth - thickness,
                     width |-> thickness, height |-> win.innerHeight]
               ELSE [top |-> win.innerHeight - thickness, left |-> 0,
                     width |-> win.innerWidth, height |-> thickness],
           !.isMainScrollbar = TRUE,
           !.maxScrollTop = win.scrollHeight - win.innerHeight,
           !.maxScrollLeft = win.scrollWidth - win.innerWidth,
           !.isOverlayScrollbar = (thickness = 0)]

\* findMainBrowserScrollbars: the vertical descriptor, then the horizontal one.
MainScrollbarData(vertical, index) ==
    LET thickness == IF vertical THEN win.innerWidth - win.clientWidth
                     ELSE win.innerHeight - win.clientHeight
        display == Max2(thickness, 8)
    IN [Desc0 EXCEPT
           !.tagName = IF vertical THEN "scrollbar:main-vertical"
                       ELSE "scrollbar:main-horizontal",
           !.highlightIndex = index,
           !.boundingRect =
               IF vertical
               THEN [top |-> 0, left |-> win.innerWidth - display,
                     width |-> display, height |-> win.innerHeight]
               ELSE [top |-> win.innerHeight - display, left |-> 0,
                     width |-> win.innerWidth, height |-> display],
           !.isMainScrollbar = TRUE,
           !.maxScrollTop = win.scrollHeight - win.innerHeight,
           !.maxScrollLeft = win.scrollWidth - win.innerWidth,
           !.isOverlayScrollbar = (thickness = 0)]

EmitMainScrollbar(acc, vertical) ==
    [acc EXCEPT
        !.result = Append(acc.result, MainScrollbarData(vertical, acc.index)),
        !.container =
            IF ShouldHighlight(acc.index)
            THEN HighlightScrollbar(acc.container, acc.index, vertical, ~vertical,
                                    win.innerWidth - win.clientWidth,
                                    win.innerHeight - win.clientHeight)
            ELSE acc.container,
        !.index = acc.index + 1]

HorizontalMainScrollbar(acc) ==
    IF win.scrollWidth > win.innerWidth /\ win.innerHeight - win.clientHeight >= 0
    THEN EmitMainScrollbar(acc, FALSE) ELSE acc

FindMainBrowserScrollbars(acc) ==
    HorizontalMainScrollbar(
        IF win.scrollHeight > win.innerHeight /\ win.innerWidth - win.clientWidth >= 0
        THEN EmitMainScrollbar(acc, TRUE) ELSE acc)

\* ------------------------------------------------------------------ the pass
\* One iteration of the second loop of processElementsInDocument (host = 0) or of
\* processShadowDOMElements (host # 0): the duplicate check, then the emission.
ResolveWith(acc, n, iframe, host, verdict) ==
    IF verdict.dup THEN [acc EXCEPT !.ledger = verdict.ledger]
    ELSE Emit([acc EXCEPT !.ledger = verdict.ledger],
              [CreateElementData(n, acc.index) EXCEPT !.inIframe = iframe, !.shadowHost = host],
              n, iframe)

ResolveCandidate(acc, n, iframe, host) ==
    ResolveWith(acc, n, iframe, host, IsDuplicateInteractiveElement(n, acc.ledger))

\* The second loop of a shadow root; an exception in the duplicate check ends it.
ResolveThrows(candidates) ==
    \E i \in 1..Len(candidates) : DuplicateCheckThrows(candidates[i])

RECURSIVE ResolveAll(_, _, _, _)
ResolveAll(acc, candidates, iframe, host) ==
    IF candidates = <<>> THEN acc
    ELSE IF DuplicateCheckThrows(Head(candidates)) THEN acc
    ELSE ResolveAll(ResolveCandidate(acc, Head(candidates), iframe, host),
                    Tail(candidates), iframe, host)

ShadowHosts(doc) == InDocOrder({ n \in Nodes : dom[n].root = doc /\ dom[n].shadowHost })

\* processShadowDOMElements: the loop over all hosts runs inside one try, so an
\* exception in the scan or in the duplicate check of one shadow root ends the loop.
RECURSIVE ProcessShadowDOMElements(_, _, _)
ProcessShadowDOMElements(acc, hosts, iframe) ==
    IF hosts = <<>> THEN acc
    ELSE IF ScanThrows(QuerySelectorAll(Head(hosts)), iframe) THEN acc
    ELSE IF ResolveThrows(Candidates(Head(hosts), iframe))
         THEN ResolveAll(acc, Candidates(Head(hosts), iframe), iframe, Head(hosts))
    ELSE ProcessShadowDOMElements(
             ResolveAll(acc, Candidates(Head(hosts), iframe), iframe, Head(hosts)),
             Tail(hosts), iframe)

\* ------------------------------------------------------------------ GeometryStyleCache
\* The cache object as the call constructs it: both maps empty, the window size and the
\* time of construction recorded. A map is the set of its entries [el, value, epoch];
\* epoch records how often the window size had changed when the value was read.
NewCache ==
    [boundingRects |-> {}, computedStyles |-> {},
     previousWindowSize |-> [width |-> win.innerWidth, height |-> win.innerHeight],
     lastRunTimestamp |-> now]

\* Variant of clearCache that clears from 30000 ms on.
ClearCacheAtThreshold(cache, force) ==
    IF \/ force
       \/ win.innerWidth # cache.previousWindowSize.width
       \/ win.innerHeight # cache.previousWindowSize.height
       \/ now - cache.lastRunTimestamp >= 30000
    THEN [cache |-> NewCache, returned |-> TRUE]
    ELSE [cache |-> [cache EXCEPT !.lastRunTimestamp = now], returned |-> FALSE]

\* DOM_CACHE.clearCache(force): the cache after the call and the value returned.
ClearCache(cache, force) ==
    IF \/ force
       \/ win.innerWidth # cache.previousWindowSize.width
       \/ win.innerHeight # cache.previousWindowSize.height
       \/ now - cache.lastRunTimestamp > 30000
    THEN [cache |-> NewCache, returned |-> TRUE]
    ELSE [cache |-> [cache EXCEPT !.lastRunTimestamp = now], returned |-> FALSE]

\* getCachedBoundingRect / getCachedComputedStyle: the elements whose rect and whose
\* style a piece of the pass reads through the cache ([rects, styles]); a read that
\* raises stores nothing.
NoReads == [rects |-> {}, styles |-> {}]

Join(a, b) == [rects |-> a.rects \cup b.rects, styles |-> a.styles \cup b.styles]

RectRead(n, reached) == IF reached /\ ~RectThrows(n) THEN {n} ELSE {}

\* isElementVisible and the cursor test of isInteractiveElement read the style.
StyleRead(n, reached) == IF reached /\ ~StyleThrows(n) THEN {n} ELSE {}

NonZeroBox(n) == ~(dom[n].rect.width = 0 /\ dom[n].rect.height = 0)

\* One iteration of the first loop of a scan. In the top document isInViewport and
\* isTopElement read the rect; in an iframe only the last statement does.
ScanReads(n, iframe) ==
    [rects |->
        IF iframe = 0
        THEN RectRead(n, \/ args.viewportExpansion # -1
                         \/ VisibleOutcome(n) = "yes")
        ELSE RectRead(n, ScanOutcome(n, iframe) = "pass"),
     styles |->
        StyleRead(n, /\ ViewportOutcome(n, iframe) = "yes"
                     /\ \/ NonZeroBox(n)
                        \/ /\ VisibleOutcome(n) = "yes" /\ TopOutcome(n, iframe) = "yes"
                           /\ dom[n].role # "presentation")]

RECURSIVE ScanAllReads(_, _)
ScanAllReads(s, iframe) ==
    IF s = <<>> THEN NoReads
    ELSE IF ScanOutcome(Head(s), iframe) = "throw" THEN ScanReads(Head(s), iframe)
    ELSE Join(ScanReads(Head(s), iframe), ScanAllReads(Tail(s), iframe))

\* The ancestor walk: the style of each ancestor it tests, the rect of each interactive one.
RECURSIVE WalkReads(_, _)
WalkReads(n, p) ==
    IF p = 0 THEN NoReads
    ELSE Join([rects |-> RectRead(p, InteractiveOutcome(p) = "yes"),
               styles |-> StyleRead(p, dom[p].role # "presentation")],
              IF \/ InteractiveOutcome(p) = "no"
                 \/ (InteractiveOutcome(p) = "yes" /\ ~RectThrows(p) /\ ~ContainedIn(n, p))
              THEN WalkReads(n, dom[p].parent) ELSE NoReads)

\* isDuplicateInteractiveElement: getElementPriority reads the style of the candidate.
DuplicateCheckReads(n) ==
    IF dom[n].rect.width < 5 \/ dom[n].rect.height < 5 THEN NoReads
    ELSE Join([rects |-> {}, styles |-> StyleRead(n, TRUE)],
              IF IsHighPriorityElement(n) THEN NoReads ELSE WalkReads(n, dom[n].parent))

RECURSIVE ResolveReads(_)
ResolveReads(candidates) ==
    IF candidates = <<>> THEN NoReads
    ELSE IF DuplicateCheckThrows(Head(candidates)) THEN DuplicateCheckReads(Head(candidates))
    ELSE Join(DuplicateCheckReads(Head(candidates)), ResolveReads(Tail(candidates)))

\* The search for the visible parent of a hidden file input.
RECURSIVE ParentReads(_, _)
ParentReads(p, iframe) ==
    IF p = 0 THEN NoReads
    ELSE Join([rects |-> RectRead(p, iframe = 0),
               styles |-> StyleRead(p, TopOutcome(p, iframe) = "yes" /\ NonZeroBox(p))],
              IF \/ TopOutcome(p, iframe) = "no"
                 \/ (TopOutcome(p, iframe) = "yes" /\ VisibleOutcome(p) = "no")
              THEN ParentReads(dom[p].parent, iframe) ELSE NoReads)

RECURSIVE FileInputReads(_, _)
FileInputReads(inputs, iframe) ==
    IF inputs = <<>> THEN NoReads
    ELSE IF FileInputThrows(Head(inputs), VisibleParent(dom[Head(inputs)].parent, iframe))
    THEN ParentReads(dom[Head(inputs)].parent, iframe)
    ELSE Join(ParentReads(dom[Head(inputs)].parent, iframe),
              FileInputReads(Tail(inputs), iframe))

RECURSIVE ShadowReads(_, _)
ShadowReads(hosts, iframe) ==
    IF hosts = <<>> THEN NoReads
    ELSE IF ScanThrows(QuerySelectorAll(Head(hosts)), iframe)
    THEN ScanAllReads(QuerySelectorAll(Head(hosts)), iframe)
    ELSE Join(Join(ScanAllReads(QuerySelectorAll(Head(hosts)), iframe),
                   ResolveReads(Candidates(Head(hosts), iframe))),
              IF ResolveThrows(Candidates(Head(hosts), iframe)) THEN NoReads
              ELSE ShadowReads(Tail(hosts), iframe))

\* The two tests of the iframe loop on the iframe element.
IframeReads(iframe) ==
    [rects |-> RectRead(iframe, args.viewportExpansion # -1),
     styles |-> StyleRead(iframe, ViewportOutcome(iframe, 0) = "yes" /\ NonZeroBox(iframe))]

\* findScrollableElements: isInViewport, isElementVisible, and isTopElement for an
\* element that has a scrollbar.
ScrollCheckReads(n) ==
    [rects |-> RectRead(n, \/ args.viewportExpansion # -1
                           \/ /\ VisibleOutcome(n) = "yes"
                              /\ ~(dom[n].clientWidth < 10 \/ dom[n].clientHeight < 10)
                              /\ (HasVerticalScrollbar(n) \/ HasHorizontalScrollbar(n))),
     styles |-> StyleRead(n, ViewportOutcome(n, 0) = "yes" /\ NonZeroBox(n))]

RECURSIVE ScrollReads(_)
ScrollReads(elements) ==
    IF elements = <<>> THEN NoReads
    ELSE IF ScrollCheckThrows(Head(elements)) THEN ScrollCheckReads(Head(elements))
    ELSE Join(ScrollCheckReads(Head(elements)), ScrollReads(Tail(elements)))

\* The cache after the reads: an element already in a map keeps its entry (has/get),
\* another one gets the value just read (set).
Stored(cache, reads) ==
    [cache EXCEPT
        !.boundingRects =
            @ \cup { [el |-> n, value |-> dom[n].rect, epoch |-> sizeEpoch] :
                        n \in { x \in reads.rects :
                                   \A e \in cache.boundingRects : e.el # x } },
        !.computedStyles =
            @ \cup { [el |-> n, value |-> dom[n].styleVisible, epoch |-> sizeEpoch] :
                        n \in { x \in reads.styles :
                                   \A e \in cache.computedStyles : e.el # x } }]

Iframes == InDocOrder({ n \in Nodes : dom[n].root = 0 /\ dom[n].tag = "iframe" })

IdleDup == [el |-> 0, before |-> <<>>, dup |-> FALSE]

\* Variant of the pass start that does not reset the counter.
StartPassKeepingCounter ==
    /\ pc = "idle" /\ passNo < MaxPasses
    /\ passNo' = passNo + 1
    /\ container' = IF container.exists THEN [container EXCEPT !.children = <<>>]
                    ELSE container
    /\ result' = <<>>
    /\ processedElementAreas' = <<>>
    /\ ctx' = [iframe |-> 0, aborted |-> FALSE]
    /\ queue' = <<>>
    /\ iframesLeft' = <<>>
    /\ lastDup' = IdleDup
    /\ DOM_CACHE' = ClearCache(NewCache, FALSE).cache
    /\ thrown' = FALSE
    /\ pc' = "collect"
    /\ UNCHANGED <<world, caller, dom, win, args, highlightIndex, lastResult>>

\* Variant of the pass start that keeps the cache object of the previous call.
StartPassKeepingCache ==
    /\ pc = "idle" /\ passNo < MaxPasses
    /\ passNo' = passNo + 1
    /\ container' = IF container.exists THEN [container EXCEPT !.children = <<>>]
                    ELSE container
    /\ result' = <<>>
    /\ highlightIndex' = 0
    /\ processedElementAreas' = <<>>
    /\ ctx' = [iframe |-> 0, aborted |-> FALSE]
    /\ queue' = <<>>
    /\ iframesLeft' = <<>>
    /\ lastDup' = IdleDup
    /\ thrown' = FALSE
    /\ pc' = "collect"
    /\ UNCHANGED <<DOM_CACHE, world, caller, dom, win, args, lastResult>>

\* Variant of the pass start that leaves the overlays of the previous pass in place.
StartPassKeepingOverlays ==
    /\ pc = "idle" /\ passNo < MaxPasses
    /\ passNo' = passNo + 1
    /\ result' = <<>>
    /\ highlightIndex' = 0
    /\ processedElementAreas' = <<>>
    /\ ctx' = [iframe |-> 0, aborted |-> FALSE]
    /\ queue' = <<>>
    /\ iframesLeft' = <<>>
    /\ lastDup' = IdleDup
    /\ DOM_CACHE' = ClearCache(NewCache, FALSE).cache
    /\ thrown' = FALSE
    /\ pc' = "collect"
    /\ UNCHANGED <<world, caller, dom, win, args, lastResult, container>>

\* The body of domTreeResult up to the first scan: the cache object is constructed,
\* clearCache(false) is called on it, and findViewportInteractiveElements resets the
\* container, the counter and the ledger.
BeginPass ==
    /\ passNo' = passNo + 1
    /\ container' = IF container.exists THEN [container EXCEPT !.children = <<>>]
                    ELSE container
    /\ result' = <<>>
    /\ highlightIndex' = 0
    /\ processedElementAreas' = <<>>
    /\ ctx' = [iframe |-> 0, aborted |-> FALSE]
    /\ queue' = <<>>
    /\ iframesLeft' = <<>>
    /\ lastDup' = IdleDup
    /\ DOM_CACHE' = ClearCache(NewCache, FALSE).cache
    /\ thrown' = FALSE
    /\ pc' = "collect"
    /\ UNCHANGED <<world, dom, win, lastResult>>

\* domTreeResult is called with the arguments of the page.
StartPass ==
    /\ pc = "idle" /\ passNo < MaxPasses
    /\ BeginPass
    /\ UNCHANGED <<caller, args>>

\* The first loop of processElementsInDocument and the sort.
\* An exception in the loop leaves the try of processElementsInDocument: the document
\* yields no candidate and the rest of the function is skipped.
CollectCandidates ==
    /\ pc = "collect"
    /\ queue' = IF ScanThrows(QuerySelectorAll(ctx.iframe), ctx.iframe) THEN <<>>
                 ELSE Candidates(ctx.iframe, ctx.iframe)
    /\ ctx' = [ctx EXCEPT !.aborted = ScanThrows(QuerySelectorAll(ctx.iframe), ctx.iframe)]
    /\ DOM_CACHE' = Stored(DOM_CACHE,
                           ScanAllReads(QuerySelectorAll(ctx.iframe), ctx.iframe))
    /\ pc' = "dedup"
    /\ UNCHANGED <<thrown, world, caller, dom, win, args, passNo, highlightIndex,
                   processedElementAreas, result, iframesLeft, container, lastResult,
                   lastDup>>

\* The pass state after an emitting step.
Commit(acc) ==
    /\ result' = acc.result
    /\ highlightIndex' = acc.index
    /\ container' = acc.container
    /\ processedElementAreas' = acc.ledger

\* One iteration of the second loop of processElementsInDocument; an exception in the
\* duplicate check ends the loop and skips the rest of the function.
DedupStep ==
    /\ pc = "dedup" /\ queue # <<>>
    /\ IF DuplicateCheckThrows(Head(queue))
       THEN /\ queue' = <<>>
            /\ ctx' = [ctx EXCEPT !.aborted = TRUE]
            /\ UNCHANGED <<result, highlightIndex, container, processedElementAreas, lastDup>>
       ELSE /\ Commit(ResolveCandidate(
                          Acc(result, highlightIndex, container, processedElementAreas),
                          Head(queue), ctx.iframe, 0))
            /\ lastDup' = [el |-> Head(queue), before |-> processedElementAreas,
                           dup |-> highlightIndex' = highlightIndex]
            /\ queue' = Tail(queue)
            /\ UNCHANGED ctx
    /\ DOM_CACHE' = Stored(DOM_CACHE, DuplicateCheckReads(Head(queue)))
    /\ UNCHANGED <<thrown, world, caller, dom, win, args, pc, passNo, iframesLeft,
                   lastResult>>

\* The rest of processElementsInDocument: hidden file inputs, then the shadow roots.
FinishDocument ==
    /\ pc = "dedup" /\ queue = <<>>
    /\ Commit(IF ctx.aborted
              THEN Acc(result, highlightIndex, container, processedElementAreas)
              ELSE ProcessShadowDOMElements(
                       ProcessHiddenFileInputs(
                           Acc(result, highlightIndex, container, processedElementAreas),
                           HiddenFileInputs(ctx.iframe), ctx.iframe),
                       ShadowHosts(ctx.iframe), ctx.iframe))
    /\ iframesLeft' = IF ctx.iframe = 0 THEN Iframes ELSE iframesLeft
    /\ ctx' = [iframe |-> 0, aborted |-> FALSE]
    /\ pc' = "iframes"
    /\ DOM_CACHE' =
          IF ctx.aborted THEN DOM_CACHE
          ELSE Stored(DOM_CACHE,
                      Join(FileInputReads(HiddenFileInputs(ctx.iframe), ctx.iframe),
                           ShadowReads(ShadowHosts(ctx.iframe), ctx.iframe)))
    /\ UNCHANGED <<thrown, world, caller, dom, win, args, passNo, queue, lastResult, lastDup>>

\* One iteration of the iframe loop of findViewportInteractiveElements. The two tests of
\* the iframe element are made outside the try, and the placeholder is built inside the
\* catch: an exception there ("throw") leaves domTreeResult.
IframeOutcome(iframe) ==
    IF ViewportOutcome(iframe, 0) = "throw" THEN "throw"
    ELSE IF ViewportOutcome(iframe, 0) = "no" THEN "skip"
    ELSE IF VisibleOutcome(iframe) = "throw" THEN "throw"
    ELSE IF VisibleOutcome(iframe) = "no" THEN "skip"
    ELSE IF dom[iframe].frame # "cross" THEN "enter"
    ELSE IF ~IsInteractiveElement(iframe) THEN "skip"
    ELSE IF RectThrows(iframe) THEN "throw"
    ELSE "placeholder"

IframeApply(iframe, outcome) ==
    /\ Commit(IF outcome = "placeholder"
              THEN Emit(Acc(result, highlightIndex, container, processedElementAreas),
                        [CreateElementData(iframe, highlightIndex) EXCEPT
                            !.isIframe = TRUE, !.crossDomain = TRUE],
                        iframe, 0)
              ELSE Acc(result, highlightIndex, container, processedElementAreas))
    /\ ctx' = IF outcome = "enter" THEN [iframe |-> iframe, aborted |-> FALSE] ELSE ctx
    /\ pc' = IF outcome = "enter" THEN "collect"
             ELSE IF outcome = "throw" THEN "idle" ELSE pc
    /\ thrown' = (outcome = "throw")

IframeStep ==
    /\ pc = "iframes" /\ iframesLeft # <<>>
    /\ IframeApply(Head(iframesLeft), IframeOutcome(Head(iframesLeft)))
    /\ iframesLeft' = Tail(iframesLeft)
    /\ DOM_CACHE' = Stored(DOM_CACHE, IframeReads(Head(iframesLeft)))
    /\ UNCHANGED <<world, caller, dom, win, args, passNo, queue, lastResult, lastDup>>

\* findScrollableElements(result)
ScanScrollableElements ==
    /\ pc = "iframes" /\ iframesLeft = <<>>
    /\ Commit(FindScrollableElements(
                  Acc(result, highlightIndex, container, processedElementAreas),
                  InDocOrder({ n \in Nodes : dom[n].root = 0 })))
    /\ pc' = "mainbars"
    /\ DOM_CACHE' = Stored(DOM_CACHE, ScrollReads(InDocOrder({ n \in Nodes : dom[n].root = 0 })))
    /\ UNCHANGED <<thrown, world, caller, dom, win, args, passNo, queue, ctx, iframesLeft, lastResult, lastDup>>

\* findMainBrowserScrollbars(result)
ScanMainBrowserScrollbars ==
    /\ pc = "mainbars"
    /\ Commit(FindMainBrowserScrollbars(
                  Acc(result, highlightIndex, container, processedElementAreas)))
    /\ pc' = "return"
    /\ UNCHANGED <<DOM_CACHE, thrown, world, caller, dom, win, args, passNo, queue, ctx, iframesLeft, lastResult, lastDup>>

\* domTreeResult returns the record holding interactiveElements.
Return ==
    /\ pc = "return"
    /\ lastResult' = result
    /\ pc' = "idle"
    /\ lastCall' = [args |-> args, win |-> win, overlays |-> container.children]
    /\ UNCHANGED <<DOM_CACHE, thrown, world, analyzer, posted, clearLog, probe, content, dom, win, args, passNo, highlightIndex, processedElementAreas, result,
                   queue, ctx, iframesLeft, container, lastDup>>

\* ------------------------------------------------------------------ the pages explored
Rect(l, t, w, h) == [left |-> l, top |-> t, width |-> w, height |-> h]

RBig   == Rect(0, 0, 120, 100)
RMid   == Rect(10, 10, 40, 40)
RSmall == Rect(10, 10, 20, 20)
RIcon  == Rect(12, 12, 10, 10)
RTiny  == Rect(14, 14, 4, 10)
RFar   == Rect(200, 200, 40, 40)
ROff   == Rect(10, 700, 40, 40)

\* <button>OK</button>
Button == [Elem0 EXCEPT !.tag = "button", !.text = <<"O", "K">>]
\* <a href=..>Go</a>
Link == [Elem0 EXCEPT !.tag = "a", !.attrs = {"href"}, !.text = <<"G", "o">>]
\* <div onclick=..>Hi</div>
ClickDiv == [Elem0 EXCEPT !.attrs = {"onclick"}, !.text = <<"H", "i">>]
\* <span onclick=..></span>
IconSpan == [Elem0 EXCEPT !.tag = "span", !.attrs = {"onclick"}]
\* <span role="button" tabindex="0" onclick=.. style="cursor:pointer"></span>
HotSpan == [Elem0 EXCEPT !.tag = "span", !.role = "button", !.tabindex = "0",
                         !.attrs = {"onclick"}, !.cursor = "pointer"]
\* <span role="button" onclick=..></span>
RoleSpan == [Elem0 EXCEPT !.tag = "span", !.role = "button", !.attrs = {"onclick"}]
\* <input type="text">
TextInput == [Elem0 EXCEPT !.tag = "input", !.type = "text"]
\* <div> without any attribute
PlainDiv == Elem0

At(e, r, parent) == [e EXCEPT !.rect = r, !.parent = parent]
In(e, root) == [e EXCEPT !.root = root]

Window0 ==
    [innerWidth |-> 800, innerHeight |-> 600, clientWidth |-> 800, clientHeight |-> 600,
     scrollWidth |-> 800, scrollHeight |-> 600, registry |-> "ok"]

Args0 == [doHighlightElements |-> FALSE, focusHighlightIndex |-> -1, viewportExpansion |-> 0]

ArgsSets ==
    { Args0,
      [Args0 EXCEPT !.doHighlightElements = TRUE],
      [Args0 EXCEPT !.viewportExpansion = -1] }

Page(d, w, a) == [dom |-> d, win |-> w, args |-> a]

\* A wrapper with two elements in it, the second a sibling or a child of the first.
PairTemplates == {Button, Link, ClickDiv, IconSpan, RoleSpan, HotSpan, TextInput}

PairPages ==
    { Page(<< At(wrap, RBig, 0), At(a, ra, 1), At(b, rb, pb) >>, Window0, ar) :
        wrap \in {PlainDiv, Button, ClickDiv},
        a \in PairTemplates, ra \in {RMid, RSmall},
        b \in PairTemplates, rb \in {RMid, RSmall, RIcon, RTiny, RFar, ROff},
        pb \in {1, 2}, ar \in ArgsSets }

\* The top document has a classic vertical scrollbar, or overlay scrollbars on both axes.
Window1 == [Window0 EXCEPT !.scrollHeight = 3000, !.clientWidth = 785]
Window2 == [Window0 EXCEPT !.scrollHeight = 3000, !.scrollWidth = 1600]

ArgsHighlight == [Args0 EXCEPT !.doHighlightElements = TRUE]
ArgsFocus == [Args0 EXCEPT !.doHighlightElements = TRUE, !.focusHighlightIndex = 1]
ArgsAll == [Args0 EXCEPT !.viewportExpansion = -1]

\* A box that scrolls vertically: client box w x h, content height sh, scrollbar bar wide.
VScroll(e, l, t, w, h, bar, sh) ==
    [e EXCEPT !.rect = Rect(l, t, w + bar, h), !.clientWidth = w, !.clientHeight = h,
              !.scrollWidth = w, !.scrollHeight = sh, !.overflowY = "auto"]

\* A box that scrolls horizontally: content width sw, scrollbar bar high.
HScroll(e, l, t, w, h, bar, sw) ==
    [e EXCEPT !.rect = Rect(l, t, w, h + bar), !.clientWidth = w, !.clientHeight = h,
              !.scrollWidth = sw, !.scrollHeight = h, !.overflowX = "scroll"]

\* A box whose content overflows but is clipped (overflow: hidden).
Clipped(e, l, t, w, h) ==
    [e EXCEPT !.rect = Rect(l, t, w, h), !.clientWidth = w, !.clientHeight = h,
              !.scrollWidth = w, !.scrollHeight = 5 * h, !.overflow = "hidden",
              !.overflowX = "hidden", !.overflowY = "hidden"]

\* An outer box, a second box inside it, over it or beside it, and a button.
OuterBoxes ==
    { VScroll(e, 100, 100, 400, 400, bar, sh) :
        e \in {PlainDiv, ClickDiv}, bar \in {0, 15},
        sh \in {400, 2000} }

InnerBoxes ==
    UNION { { [VScroll(PlainDiv, pos[1], pos[2], pos[3], pos[4], bar, 900)
                  EXCEPT !.parent = pos[5]],
              [HScroll(PlainDiv, pos[1], pos[2], pos[3], pos[4], bar, 900)
                  EXCEPT !.parent = pos[5]],
              [Clipped(PlainDiv, pos[1], pos[2], pos[3], pos[4]) EXCEPT !.parent = pos[5]] } :
            pos \in { <<110, 110, 200, 200, 1>>, <<100, 100, 400, 400, 1>>,
                      <<550, 100, 200, 200, 0>> },
            bar \in {0, 15} }

ScrollPages ==
    { Page(<< outer, inner, At(b, Rect(120, 120, 40, 40), 2) >>, wa[1], wa[2]) :
        outer \in OuterBoxes, inner \in InnerBoxes, b \in {Button, PlainDiv},
        wa \in { <<Window0, Args0>>, <<Window1, ArgsHighlight>>, <<Window2, Args0>> } }

\* An iframe with one element in its document, a hidden file input inside a button,
\* a shadow host with a button in its shadow tree, a scrolling box, and a same-origin
\* iframe holding a link.
FrameTemplates ==
    { [e EXCEPT !.tag = "iframe", !.frame = f] :
        e \in {PlainDiv, [PlainDiv EXCEPT !.tabindex = "0", !.cursor = "pointer"],
               [PlainDiv EXCEPT !.cursor = "pointer"]},
        f \in {"same", "cross"} }

FileInputs ==
    { [TextInput EXCEPT !.type = "file", !.classes = {"hidden"}],
      [TextInput EXCEPT !.type = "file", !.inlineDisplayNone = TRUE, !.styleVisible = FALSE],
      [TextInput EXCEPT !.type = "file", !.classes = {"hidden"},
                        !.rect = Rect(10, 200, 60, 30)] }

BoundaryPages ==
    { Page(<< At(frame, fr, 0),
              In(At(inner, ir, 0), 1),
              At(Button, Rect(10, 200, 60, 30), 0),
              [file EXCEPT !.parent = 3],
              [At(PlainDiv, Rect(10, 300, 60, 30), 0) EXCEPT !.shadowHost = TRUE],
              In(At(Button, Rect(10, 300, 60, 30), 0), 5),
              VScroll(PlainDiv, 550, 300, 200, 200, 15, 900),
              At([PlainDiv EXCEPT !.tag = "iframe", !.frame = "same"],
                 Rect(300, 250, 200, 150), 0),
              In(At(Link, RMid, 0), 8) >>, wa[1], wa[2]) :
        frame \in FrameTemplates, fr \in {Rect(300, 50, 200, 150), Rect(300, 700, 200, 150)},
        inner \in {Button, Link}, ir \in {RMid, Rect(10, 300, 40, 40)},
        file \in FileInputs,
        wa \in { <<Window0, Args0>>, <<Window1, ArgsHighlight>>, <<Window1, ArgsFocus>>,
                 <<Window0, ArgsAll>> } }

\* A form control inside a label (itself inside a div or another label), beside a
\* button or a span, with a label[for] elsewhere in the document.
FormControls ==
    { [c EXCEPT !.id = id] :
        c \in { TextInput,
                [Elem0 EXCEPT !.tag = "select", !.text = <<"o", "1">>],
                [Elem0 EXCEPT !.tag = "textarea", !.text = <<"t">>] },
        id \in {"", "f1"} }

FormPages ==
    { Page(<< At(outer, RBig, 0),
              At([Elem0 EXCEPT !.tag = "label", !.text = text], Rect(10, 10, 100, 40), 1),
              At(control, Rect(12, 12, 40, 20), 2),
              At(beside, Rect(60, 12, 30, 20), 2),
              At(other, Rect(10, 200, 60, 20), 0) >>, Window0, Args0) :
        outer \in {PlainDiv, [Elem0 EXCEPT !.tag = "label", !.text = <<"X", " ">>]},
        text \in { <<" ", "E", "m", "a", "i", "l", " ">>, <<>> },
        control \in FormControls,
        beside \in {Button, [Elem0 EXCEPT !.tag = "span", !.text = <<"s">>]},
        other \in { [Elem0 EXCEPT !.tag = "label", !.htmlFor = "f1", !.text = <<"E", "x">>],
                    [Elem0 EXCEPT !.tag = "label", !.htmlFor = "f1"],
                    [Elem0 EXCEPT !.tag = "label", !.htmlFor = "zz", !.text = <<"N", "o">>] } }

\* A short document under windows whose content does or does not overflow and whose
\* documentElement is narrower than, as wide as, or (a zoomed visual viewport) wider
\* than the window.
Windows ==
    { [Window0 EXCEPT !.scrollHeight = sh, !.scrollWidth = sw,
                      !.clientWidth = cw, !.clientHeight = ch] :
        sh \in {600, 3000}, sw \in {800, 1600}, cw \in {785, 797, 800, 820},
        ch \in {585, 600, 620} }

WindowPages ==
    { Page(<< At(Button, RMid, 0), At(Link, RFar, 0) >>, w, a) :
        w \in Windows, a \in {Args0, ArgsHighlight} }

\* A list item, label, form, div, button or anchor holding an anchor, a button, an
\* input, a list item or a span; the holder scores high (onclick) or low (data-index).
PatternHolders ==
    { [Elem0 EXCEPT !.tag = t, !.attrs = at] :
        t \in {"li", "label", "form", "div", "button", "a"},
        at \in { {"onclick"}, {"data-index"} } }

PatternChildren ==
    { [Elem0 EXCEPT !.tag = "a", !.text = <<"G", "o">>],
      Button, TextInput,
      [Elem0 EXCEPT !.tag = "li", !.attrs = {"data-index"}, !.text = <<"I", "t">>],
      IconSpan,
      [Elem0 EXCEPT !.tag = "span", !.attrs = {"data-index"}, !.text = <<"s">>] }

PatternPages ==
    { Page(<< At(holder, RBig, 0), At(child, rc, 1) >>, Window0, Args0) :
        holder \in PatternHolders, child \in PatternChildren,
        rc \in {RMid, Rect(10, 10, 14, 14), Rect(5, 5, 110, 90)} }

\* A same-origin iframe holding a second same-origin iframe (with a link or button in
\* its document) and a shadow host (with a button in its shadow tree); in the top
\* document a shadow host whose shadow tree holds a second host with a button.
SameOriginFrame == [PlainDiv EXCEPT !.tag = "iframe", !.frame = "same"]
Host == [PlainDiv EXCEPT !.shadowHost = TRUE]

NestedPages ==
    { Page(<< At(SameOriginFrame, Rect(100, 100, 400, 300), 0),
              In(At(SameOriginFrame, Rect(10, 10, 200, 150), 0), 1),
              In(At(leaf, RMid, 0), 2),
              At(Host, Rect(10, 450, 100, 100), 0),
              In(At(Host, Rect(10, 450, 100, 100), 0), 4),
              In(At(Button, Rect(20, 460, 40, 40), 0), 5),
              In(At(Host, Rect(250, 10, 60, 30), 0), 1),
              In(At(Button, Rect(250, 10, 60, 30), 0), 7) >>, w, a) :
        leaf \in {Link, Button}, w \in {Window0, Window1},
        a \in {Args0, ArgsHighlight, ArgsAll} }

\* Documents in which a host query fails for some element: a button of the top
\* document, a same-origin iframe element, the buttons in the shadow trees of two hosts
\* inside that iframe, a link of the iframe document. Beside them: a link, a hidden
\* file input in a button, a shadow host, and a second iframe holding a link.
Faulty(e, f) == [e EXCEPT !.fault = f]

FaultPages ==
    { Page(<< Faulty(At(Button, Rect(10, 10, 60, 30), 0), f1),
              At(Link, RFar, 0),
              At(Button, Rect(10, 100, 60, 30), 0),
              [TextInput EXCEPT !.type = "file", !.classes = {"hidden"}, !.parent = 3],
              At(Host, Rect(10, 400, 60, 30), 0),
              In(At(Button, Rect(10, 400, 60, 30), 0), 5),
              Faulty(At(SameOriginFrame, Rect(300, 50, 300, 300), 0), f7),
              In(At(Host, Rect(100, 10, 60, 30), 0), 7),
              In(Faulty(At(Button, Rect(100, 10, 60, 30), 0), f9), 8),
              In(At(Host, Rect(100, 60, 60, 30), 0), 7),
              In(Faulty(At(Button, Rect(100, 60, 60, 30), 0), f11), 10),
              In(Faulty(At(Link, Rect(100, 250, 40, 40), 0), f12), 7),
              At(SameOriginFrame, Rect(620, 50, 150, 150), 0),
              In(At(Link, Rect(50, 50, 40, 40), 0), 13),
              Faulty(At(Link, ROff, 0), f15) >>, Window0, a) :
        f1 \in {"none", "rect", "style", "hit"}, f15 \in {"none", "style"},
        f7 \in {"none", "rect", "style"},
        f9 \in {"none", "rect", "style", "hit"}, f11 \in {"none", "hit"},
        f12 \in {"none", "style"}, a \in {Args0, ArgsAll} }

Pages ==
    PairPages \cup ScrollPages \cup BoundaryPages \cup FormPages \cup WindowPages
        \cup PatternPages \cup NestedPages

\* The state before the first call, on one of the given pages.
\* Nothing is known of a cache object before the call that constructs it.
NoLog ==
    [calls |-> 0, at |-> 0, clearAt |-> 0, width |-> 0, height |-> 0, force |-> FALSE,
     sizeDiffers |-> FALSE, sinceCall |-> 0, sinceClear |-> 0, returned |-> FALSE,
     emptied |-> FALSE, kept |-> FALSE]

\* No single function has been called.
NoProbe == [fn |-> "none", node |-> 0, iframe |-> 0, value |-> "none"]

InitWith(pages, typeofs) ==
    /\ \E page \in pages : dom = page.dom /\ win = page.win /\ args = page.args
    /\ pc = "idle"
    /\ passNo = 0
    /\ highlightIndex = 0
    /\ processedElementAreas = <<>>
    /\ result = <<>>
    /\ queue = <<>>
    /\ ctx = [iframe |-> 0, aborted |-> FALSE]
    /\ iframesLeft = <<>>
    /\ container = [exists |-> FALSE, children |-> <<>>]
    /\ lastResult = <<>>
    /\ lastDup = IdleDup
    /\ DOM_CACHE = [boundingRects |-> {}, computedStyles |-> {},
                    previousWindowSize |-> [width |-> 0, height |-> 0],
                    lastRunTimestamp |-> 0]
    /\ thrown = FALSE
    /\ now = 0
    /\ sizeEpoch = 0
    /\ analyzer \in { [state |-> "idle", value |-> "none", typeofDomTreeResult |-> t,
                        postedAtCall |-> 0] : t \in typeofs }
    /\ posted = <<>>
    /\ lastCall = [args |-> args, win |-> win, overlays |-> <<>>]
    /\ clearLog = NoLog
    /\ probe = NoProbe
    /\ content = [loaded |-> FALSE, runs |-> 0, scripts |-> <<>>, sent |-> <<>>,
                  messages |-> 0]

\* The analysis script is loaded: window.domTreeResult is defined.
InitOn(pages) == InitWith(pages, {"function"})

Init == InitOn(Pages)

Next ==
    \/ StartPass
    \/ CollectCandidates
    \/ DedupStep
    \/ FinishDocument
    \/ IframeStep
    \/ ScanScrollableElements
    \/ ScanMainBrowserScrollbars
    \/ Return

Spec == Init /\ [][Next]_vars

\* ------------------------------------------------------------------ a session of calls
MaxResizes == 1

WindowSizes == { [width |-> 800, height |-> 600], [width |-> 500, height |-> 320] }

\* Between two calls the user resizes the window; the scrollbars keep their thickness.
ResizeWindow ==
    /\ pc = "idle" /\ passNo >= 1 /\ passNo < MaxPasses /\ sizeEpoch < MaxResizes
    /\ \E size \in WindowSizes :
          /\ size # [width |-> win.innerWidth, height |-> win.innerHeight]
          /\ win' = [win EXCEPT
                        !.innerWidth = size.width, !.innerHeight = size.height,
                        !.clientWidth = size.width - (win.innerWidth - win.clientWidth),
                        !.clientHeight = size.height - (win.innerHeight - win.clientHeight)]
    /\ sizeEpoch' = sizeEpoch + 1
    /\ UNCHANGED <<dom, args, pc, passNo, highlightIndex, processedElementAreas, result,
                   queue, ctx, iframesLeft, container, lastResult, lastDup, DOM_CACHE,
                   thrown, now, caller>>

\* The next call is made with other arguments.
ChangeArguments ==
    /\ pc = "idle" /\ passNo >= 1 /\ passNo < MaxPasses
    /\ \E a \in {Args0, ArgsHighlight, ArgsFocus} : a # args /\ args' = a
    /\ UNCHANGED <<dom, win, pc, passNo, highlightIndex, processedElementAreas, result,
                   queue, ctx, iframesLeft, container, lastResult, lastDup, DOM_CACHE,
                   thrown, world, caller>>

SessionPages ==
    { p \in BoundaryPages :
        /\ p.args \in {Args0, ArgsHighlight} /\ p.dom[2].tag = "button"
        /\ p.dom[4].rect.width = 0 /\ ~p.dom[4].inlineDisplayNone }

InitSession == InitOn(SessionPages)

NextSession == Next \/ ResizeWindow \/ ChangeArguments

SpecSession == InitSession /\ [][NextSession]_vars

\* ------------------------------------------------------------------ the cache object
\* clearCache as a function of its history: one cache object is constructed and then
\* read through, cleared, and kept while the clock runs and the window is resized.
MaxClock == 70001

TickSteps == {10000, 30000, 30001}

MaxClearCalls == 3

\* const DOM_CACHE = {...}: the object is constructed.
ConstructCache ==
    /\ pc = "idle"
    /\ pc' = "cache"
    /\ DOM_CACHE' = NewCache
    /\ clearLog' = [NoLog EXCEPT !.at = now, !.clearAt = now,
                                 !.width = win.innerWidth, !.height = win.innerHeight]
    /\ UNCHANGED <<dom, win, args, passNo, highlightIndex, processedElementAreas, result,
                   queue, ctx, iframesLeft, container, lastResult, lastDup, thrown,
                   world, analyzer, posted, lastCall, probe, content>>

\* Date.now() advances.
Tick ==
    /\ pc = "cache"
    /\ \E d \in TickSteps : now + d <= MaxClock /\ now' = now + d
    /\ UNCHANGED <<dom, win, args, pc, passNo, highlightIndex, processedElementAreas,
                   result, queue, ctx, iframesLeft, container, lastResult, lastDup,
                   DOM_CACHE, thrown, sizeEpoch, caller>>

\* The window is resized while the cache object lives.
ResizeUnderCache ==
    /\ pc = "cache" /\ sizeEpoch < MaxResizes
    /\ \E size \in WindowSizes :
          /\ size # [width |-> win.innerWidth, height |-> win.innerHeight]
          /\ win' = [win EXCEPT
                        !.innerWidth = size.width, !.innerHeight = size.height,
                        !.clientWidth = size.width - (win.innerWidth - win.clientWidth),
                        !.clientHeight = size.height - (win.innerHeight - win.clientHeight)]
    /\ sizeEpoch' = sizeEpoch + 1
    /\ UNCHANGED <<dom, args, pc, passNo, highlightIndex, processedElementAreas, result,
                   queue, ctx, iframesLeft, container, lastResult, lastDup, DOM_CACHE,
                   thrown, now, caller>>

\* getCachedBoundingRect(el) or getCachedComputedStyle(el) for the button of the page.
ReadThroughCache ==
    /\ pc = "cache"
    /\ \E reads \in { [rects |-> {3}, styles |-> {}], [rects |-> {}, styles |-> {3}] } :
          DOM_CACHE' = Stored(DOM_CACHE, reads)
    /\ UNCHANGED <<dom, win, args, pc, passNo, highlightIndex, processedElementAreas,
                   result, queue, ctx, iframesLeft, container, lastResult, lastDup,
                   thrown, world, caller>>

\* DOM_CACHE.clearCache(force); the log keeps what the call met and what it did.
CallClearCache ==
    /\ pc = "cache" /\ clearLog.calls < MaxClearCalls
    /\ \E force \in BOOLEAN :
          LET call == ClearCache(DOM_CACHE, force) IN
              /\ DOM_CACHE' = call.cache
              /\ clearLog' =
                    [calls |-> clearLog.calls + 1,
                     at |-> now,
                     clearAt |-> IF call.returned THEN now ELSE clearLog.clearAt,
                     width |-> IF call.returned THEN win.innerWidth ELSE clearLog.width,
                     height |-> IF call.returned THEN win.innerHeight ELSE clearLog.height,
                     force |-> force,
                     sizeDiffers |-> \/ win.innerWidth # clearLog.width
                                     \/ win.innerHeight # clearLog.height,
                     sinceCall |-> now - clearLog.at,
                     sinceClear |-> now - clearLog.clearAt,
                     returned |-> call.returned,
                     emptied |-> /\ call.cache.boundingRects = {}
                                 /\ call.cache.computedStyles = {},
                     kept |-> /\ call.cache.boundingRects = DOM_CACHE.boundingRects
                              /\ call.cache.computedStyles = DOM_CACHE.computedStyles
                              /\ call.cache.previousWindowSize = DOM_CACHE.previousWindowSize]
    /\ UNCHANGED <<dom, win, args, pc, passNo, highlightIndex, processedElementAreas,
                   result, queue, ctx, iframesLeft, container, lastResult, lastDup,
                   thrown, world, analyzer, posted, lastCall, probe, content>>

CachePages ==
    { p \in SessionPages :
        /\ p.args = Args0 /\ p.dom[1].frame = "same" /\ p.dom[1].cursor # "pointer"
        /\ p.dom[1].rect.top = 50 /\ p.dom[2].rect.left = 10 /\ p.dom[2].rect.top = 10 }

InitCache == InitOn(CachePages)

NextCache ==
    \/ ConstructCache
    \/ Tick
    \/ ResizeUnderCache
    \/ ReadThroughCache
    \/ CallClearCache

SpecCache == InitCache /\ [][NextCache]_vars

\* The same passes over documents in which host queries fail.
InitFaults == InitOn(FaultPages)

SpecFaults == InitFaults /\ [][Next]_vars

\* ------------------------------------------------------------------ window.analyzer
\* The options a caller passes to window.analyzer: any subset of the parameters.
OptionSets ==
    { [k \in {} |-> 0],
      [viewportExpansion |-> -1],
      [doHighlightElements |-> TRUE],
      [doHighlightElements |-> TRUE, focusHighlightIndex |-> 1] }

\* const params = { ...defaults, ...options }
Params(options) ==
    [k \in DOMAIN Args0 |-> IF k \in DOMAIN options THEN options[k] ELSE Args0[k]]

\* What domTreeResult returns once the pass has ended.
AnalysisResult ==
    [viewportSize |-> [width |-> win.innerWidth, height |-> win.innerHeight],
     interactiveElements |-> lastResult]

\* window.analyzer(options) up to the call of window.domTreeResult(params): without the
\* function it returns the error record at once.
AnalyzerCall ==
    /\ pc = "idle" /\ analyzer.state # "running" /\ passNo < MaxPasses
    /\ \E options \in OptionSets :
          IF analyzer.typeofDomTreeResult # "function"
          THEN /\ analyzer' = [analyzer EXCEPT
                                  !.state = "returned",
                                  !.value = [error |-> "domTreeResult function not found"],
                                  !.postedAtCall = Len(posted)]
               /\ UNCHANGED <<dom, win, args, pc, passNo, highlightIndex,
                              processedElementAreas, result, queue, ctx, iframesLeft,
                              container, lastResult, lastDup, DOM_CACHE, thrown, world,
                              posted, lastCall, clearLog, probe, content>>
          ELSE /\ analyzer' = [analyzer EXCEPT !.state = "running", !.value = "none",
                                               !.postedAtCall = Len(posted)]
               /\ args' = Params(options)
               /\ BeginPass
               /\ UNCHANGED <<posted, lastCall, clearLog, probe, content>>

\* Variant of the catch that hands back what the pass had collected.
AnalyzerCatchPartial ==
    /\ analyzer.state = "running" /\ pc = "idle" /\ thrown
    /\ analyzer' = [analyzer EXCEPT
                       !.state = "returned",
                       !.value = [viewportSize |-> [width |-> win.innerWidth,
                                                    height |-> win.innerHeight],
                                  interactiveElements |-> result]]
    /\ UNCHANGED <<dom, win, args, pc, passNo, highlightIndex, processedElementAreas,
                   result, queue, ctx, iframesLeft, container, lastResult, lastDup,
                   DOM_CACHE, thrown, world, posted, lastCall, clearLog, probe, content>>

\* The analysis raised: catch (error) { return { error: error.toString() } }
AnalyzerCatch ==
    /\ analyzer.state = "running" /\ pc = "idle" /\ thrown
    /\ analyzer' = [analyzer EXCEPT !.state = "returned", !.value = [error |-> "Error"]]
    /\ UNCHANGED <<dom, win, args, pc, passNo, highlightIndex, processedElementAreas,
                   result, queue, ctx, iframesLeft, container, lastResult, lastDup,
                   DOM_CACHE, thrown, world, posted, lastCall, clearLog, probe, content>>

\* The analysis returned: window.postMessage({type, result}, '*'); return result
AnalyzerReturn ==
    /\ analyzer.state = "running" /\ pc = "idle" /\ ~thrown
    /\ posted' = Append(posted, [type |-> "DOM_ANALYSIS_RESULT", result |-> AnalysisResult])
    /\ analyzer' = [analyzer EXCEPT !.state = "returned", !.value = AnalysisResult]
    /\ UNCHANGED <<dom, win, args, pc, passNo, highlightIndex, processedElementAreas,
                   result, queue, ctx, iframesLeft, container, lastResult, lastDup,
                   DOM_CACHE, thrown, world, lastCall, clearLog, probe, content>>

\* Documents whose first button or whose first iframe element may fail a rect query,
\* the iframe element also a style query.
AnalyzerPages ==
    { p \in FaultPages :
        /\ p.args = Args0 /\ p.dom[1].fault \in {"none", "rect"}
        /\ p.dom[9].fault = "none" /\ p.dom[11].fault = "none" /\ p.dom[12].fault = "none" }

InitAnalyzer == InitWith(AnalyzerPages, {"function", "undefined"})

NextAnalyzer ==
    \/ AnalyzerCall
    \/ CollectCandidates
    \/ DedupStep
    \/ FinishDocument
    \/ IframeStep
    \/ ScanScrollableElements
    \/ ScanMainBrowserScrollbars
    \/ Return
    \/ AnalyzerCatch
    \/ AnalyzerReturn

SpecAnalyzer == InitAnalyzer /\ [][NextAnalyzer]_vars

\* ------------------------------------------------------------------ single functions
\* Elements carrying one marker each: the ones the interactivity tests look for, and
\* some they do not.
Marked ==
    { Elem0,
      [Elem0 EXCEPT !.tag = "span"],
      [Elem0 EXCEPT !.cursor = "pointer"],
      [Elem0 EXCEPT !.role = "presentation", !.attrs = {"onclick"}],
      [Elem0 EXCEPT !.tag = "button"],
      [Elem0 EXCEPT !.tag = "summary"],
      [Elem0 EXCEPT !.role = "button"],
      [Elem0 EXCEPT !.role = "note"],
      [Elem0 EXCEPT !.ariaRole = "tab"],
      [Elem0 EXCEPT !.tabindex = "0"],
      [Elem0 EXCEPT !.tabindex = "-1"],
      [Elem0 EXCEPT !.attrs = {"data-action"}],
      [Elem0 EXCEPT !.attrs = {"data-toggle"}],
      [Elem0 EXCEPT !.attrs = {"aria-haspopup"}],
      [Elem0 EXCEPT !.attrs = {"data-index"}],
      [Elem0 EXCEPT !.attrs = {"data-nosnippet"}],
      [Elem0 EXCEPT !.attrs = {"data-target"}],
      [Elem0 EXCEPT !.attrs = {"title"}],
      [Elem0 EXCEPT !.attrs = {"href"}],
      [Elem0 EXCEPT !.attrs = {"onclick"}],
      [Elem0 EXCEPT !.attrs = {"ng-click"}],
      [Elem0 EXCEPT !.attrs = {"aria-expanded"}],
      [Elem0 EXCEPT !.attrs = {"aria-controls"}],
      [Elem0 EXCEPT !.attrs = {"contenteditable"}],
      [Elem0 EXCEPT !.attrs = {"draggable"}],
      [Elem0 EXCEPT !.classes = {"button"}],
      [Elem0 EXCEPT !.classes = {"dropdown-toggle"}],
      [Elem0 EXCEPT !.classes = {"btn"}],
      [Elem0 EXCEPT !.classes = {"btn-primary"}],
      [Elem0 EXCEPT !.classes = {"clickable"}],
      [Elem0 EXCEPT !.classes = {"pull-left"}],
      [Elem0 EXCEPT !.classes = {"nav-btn"}],
      [Elem0 EXCEPT !.classes = {"address-input__container__input"}],
      [Elem0 EXCEPT !.classes = {"ot-sdk-button"}],
      [Elem0 EXCEPT !.classes = {"accept-button"}],
      [Elem0 EXCEPT !.classes = {"ot-sdk-container"}],
      [Elem0 EXCEPT !.classes = {"mce-content-body"}],
      [Elem0 EXCEPT !.idWords = {"cookie"}],
      [Elem0 EXCEPT !.idWords = {"notice"}],
      [Elem0 EXCEPT !.labelWords = {"consent"}],
      [Elem0 EXCEPT !.labelWords = {"accept"}],
      [Elem0 EXCEPT !.inlineHandlers = {"click"}],
      [Elem0 EXCEPT !.inlineHandlers = {"mousedown"}],
      [Elem0 EXCEPT !.inlineHandlers = {"mouseup"}],
      [Elem0 EXCEPT !.inlineHandlers = {"touchstart"}],
      [Elem0 EXCEPT !.inlineHandlers = {"touchend"}],
      [Elem0 EXCEPT !.inlineHandlers = {"keydown"}],
      [Elem0 EXCEPT !.listeners = {"click"}],
      [Elem0 EXCEPT !.listeners = {"mousedown"}, !.inlineHandlers = {"mousedown"}],
      [Elem0 EXCEPT !.listeners = {"keydown"}] }

\* The containers a marked element is put in: a plain one, a OneTrust banner, a
\* consent box.
Containers ==
    { Elem0, [Elem0 EXCEPT !.classes = {"onetrust"}], [Elem0 EXCEPT !.idWords = {"consent"}] }

Registries == {"ok", "absent", "throws"}

ClassifierPages ==
    { Page(<< At(c, RBig, 0), At(e, RMid, p) >>, [Window0 EXCEPT !.registry = r], Args0) :
        c \in Containers, e \in Marked, p \in {0, 1}, r \in Registries }

\* isInteractiveElement(element) is called for an element of the page.
ProbeInteractive ==
    /\ pc = "idle"
    /\ \E n \in Nodes :
          probe' = [fn |-> "isInteractiveElement", node |-> n, iframe |-> 0,
                    value |-> InteractiveOutcome(n)]
    /\ UNCHANGED <<dom, win, args, pc, passNo, highlightIndex, processedElementAreas,
                   result, queue, ctx, iframesLeft, container, lastResult, lastDup,
                   DOM_CACHE, thrown, world, analyzer, posted, lastCall, clearLog,
                   content>>

\* isTopElementWithIframeSupport(element, iframe) is called for an element of the page,
\* with the iframe whose document holds it (none in the main document).
ProbeTopElement ==
    /\ pc = "idle"
    /\ \E n \in Nodes :
          probe' = [fn |-> "isTopElementWithIframeSupport", node |-> n, iframe |-> DocOf(n),
                    value |-> TopOutcome(n, DocOf(n))]
    /\ UNCHANGED <<dom, win, args, pc, passNo, highlightIndex, processedElementAreas,
                   result, queue, ctx, iframesLeft, container, lastResult, lastDup,
                   DOM_CACHE, thrown, world, analyzer, posted, lastCall, clearLog,
                   content>>

TopElementPages == { p \in FaultPages : p.args = Args0 }

\* createElementData(element, index) is called for an element of the page.
ProbeElementData ==
    /\ pc = "idle"
    /\ \E n \in Nodes :
          probe' = [fn |-> "createElementData", node |-> n, iframe |-> 0,
                    value |-> CreateElementData(n, 0)]
    /\ UNCHANGED <<dom, win, args, pc, passNo, highlightIndex, processedElementAreas,
                   result, queue, ctx, iframesLeft, container, lastResult, lastDup,
                   DOM_CACHE, thrown, world, analyzer, posted, lastCall, clearLog,
                   content>>

\* A form control in a div or a label, with or without id, aria-labelledby and
\* aria-describedby; a label[for] with or without text, for the control or not; and the
\* two elements the aria attributes name.
LabelPages ==
    { Page(<< At(outer, RBig, 0),
              At([TextInput EXCEPT !.id = id, !.labelledby = lb, !.describedby = db],
                 Rect(12, 12, 40, 20), 1),
              At(other, Rect(10, 200, 60, 20), 0),
              At([Elem0 EXCEPT !.tag = "span", !.id = "t1", !.text = <<" ", "A">>],
                 Rect(10, 300, 60, 20), 0),
              At([Elem0 EXCEPT !.tag = "span", !.id = "t2", !.text = <<"B">>],
                 Rect(10, 400, 60, 20), 0) >>, Window0, Args0) :
        outer \in {PlainDiv, [Elem0 EXCEPT !.tag = "label", !.text = <<"X", " ">>],
                   [Elem0 EXCEPT !.tag = "label"]},
        id \in {"", "f1"},
        lb \in { <<>>, <<"t1">>, <<"t1", "t2">>, <<"zz">> },
        db \in { <<>>, <<"t2">> },
        other \in { [Elem0 EXCEPT !.tag = "label", !.htmlFor = "f1", !.text = <<"E", "x">>],
                    [Elem0 EXCEPT !.tag = "label", !.htmlFor = "f1"],
                    [Elem0 EXCEPT !.tag = "label", !.htmlFor = "zz", !.text = <<"N", "o">>] } }

InitFunctions == InitOn(ClassifierPages \cup TopElementPages \cup LabelPages)

NextFunctions ==
    \/ ProbeInteractive
    \/ ProbeTopElement
    \/ ProbeElementData

SpecFunctions == InitFunctions /\ [][NextFunctions]_vars

\* ------------------------------------------------------------------- content script
\* The content script (part_004) may run several times on one document; each run
\* registers one more message listener. A script element that was appended is
\* "pending" until its onload or onerror fires.
MaxRuns == 3
MaxMessages == 2

InjectOutcomes == {"appended", "throws"}

\* notifyBackground(status, message): the message given to chrome.runtime.sendMessage.
NotifyBackground(c, status) ==
    [c EXCEPT !.sent = Append(@, [action |-> "scriptInjected", status |-> status])]

\* injectScript(scriptName, onloadCallback): the script element is appended, or an
\* exception inside the try is reported as an error.
InjectScript(c, scriptName, outcome) ==
    IF outcome = "throws" THEN NotifyBackground(c, "error")
    ELSE [c EXCEPT !.scripts = Append(@, [name |-> scriptName, state |-> "pending"])]

\* Variant of the content script without the data-dom-analyzer-loaded guard.
RunContentScriptUnguarded ==
    /\ content.runs < MaxRuns
    /\ \E outcome \in InjectOutcomes :
          content' = InjectScript([content EXCEPT !.runs = @ + 1, !.loaded = TRUE],
                                  "buildDOMTree.js", outcome)
    /\ UNCHANGED <<dom, win, args, pc, passNo, highlightIndex, processedElementAreas,
                   result, queue, ctx, iframesLeft, container, lastResult, lastDup,
                   DOM_CACHE, thrown, world, analyzer, posted, lastCall, clearLog,
                   probe>>

\* One execution of the content script on the document.
RunContentScript ==
    /\ content.runs < MaxRuns
    /\ \E outcome \in InjectOutcomes :
          content' = IF content.loaded THEN [content EXCEPT !.runs = @ + 1]
                     ELSE InjectScript([content EXCEPT !.runs = @ + 1, !.loaded = TRUE],
                                       "buildDOMTree.js", outcome)
    /\ UNCHANGED <<dom, win, args, pc, passNo, highlightIndex, processedElementAreas,
                   result, queue, ctx, iframesLeft, container, lastResult, lastDup,
                   DOM_CACHE, thrown, world, analyzer, posted, lastCall, clearLog,
                   probe>>

\* script.onload of an appended script, with the callback given to injectScript.
ScriptOnload ==
    /\ \E i \in 1..Len(content.scripts), outcome \in InjectOutcomes :
          /\ content.scripts[i].state = "pending"
          /\ content' =
                IF content.scripts[i].name = "buildDOMTree.js"
                THEN InjectScript([content EXCEPT !.scripts[i].state = "loaded"],
                                  "pageScript.js", outcome)
                ELSE NotifyBackground([content EXCEPT !.scripts[i].state = "loaded"],
                                      "success")
    /\ UNCHANGED <<dom, win, args, pc, passNo, highlightIndex, processedElementAreas,
                   result, queue, ctx, iframesLeft, container, lastResult, lastDup,
                   DOM_CACHE, thrown, world, analyzer, posted, lastCall, clearLog,
                   probe>>

\* script.onerror of an appended script.
ScriptOnerror ==
    /\ \E i \in 1..Len(content.scripts) :
          /\ content.scripts[i].state = "pending"
          /\ content' = NotifyBackground([content EXCEPT !.scripts[i].state = "failed"],
                                         "error")
    /\ UNCHANGED <<dom, win, args, pc, passNo, highlightIndex, processedElementAreas,
                   result, queue, ctx, iframesLeft, container, lastResult, lastDup,
                   DOM_CACHE, thrown, world, analyzer, posted, lastCall, clearLog,
                   probe>>

\* A message event reaches the window: every registered listener forwards an analysis
\* result that comes from the window itself.
WindowMessage ==
    /\ content.runs > 0 /\ content.messages < MaxMessages
    /\ \E source \in {"window", "frame"}, type \in {"DOM_ANALYSIS_RESULT", "other"} :
          content' =
             [content EXCEPT
                 !.messages = @ + 1,
                 !.sent = IF source = "window" /\ type = "DOM_ANALYSIS_RESULT"
                          THEN @ \o [k \in 1..content.runs |->
                                        [action |-> "domAnalysisComplete", status |-> ""]]
                          ELSE @]
    /\ UNCHANGED <<dom, win, args, pc, passNo, highlightIndex, processedElementAreas,
                   result, queue, ctx, iframesLeft, container, lastResult, lastDup,
                   DOM_CACHE, thrown, world, analyzer, posted, lastCall, clearLog,
                   probe>>

InitContent == InitOn(CachePages)

NextContent ==
    \/ RunContentScript
    \/ ScriptOnload
    \/ ScriptOnerror
    \/ WindowMessage

SpecContent == InitContent /\ [][NextContent]_vars

\* ------------------------------------------------------------------- shared ledger
\* A control of the main document, and a same-origin iframe whose document holds one
\* control: at the frame-local position of the main control, elsewhere, or larger.
LedgerPages ==
    { Page(<< At(m, Rect(10, 10, 60, 30), 0),
              At(SameOriginFrame, Rect(300, 50, 300, 300), 0),
              In(At(c, r, 0), 2) >>, Window0, a) :
        m \in {Button, Link, ClickDiv},
        c \in {Button, Link, ClickDiv, RoleSpan, TextInput},
        r \in {Rect(10, 10, 60, 30), Rect(10, 100, 60, 30), Rect(0, 0, 120, 100)},
        a \in {Args0, ArgsAll} }

InitLedger == InitOn(LedgerPages)

SpecLedger == InitLedger /\ [][Next]_vars

\* ------------------------------------------------------------------ properties
\* The iframe (0 for the top document) through which the candidate scan reaches node n,
\* -1 when no scan reaches it.
ScanFrameOf(n) ==
    IF dom[n].root = 0 THEN 0
    ELSE IF /\ dom[dom[n].root].tag = "iframe" /\ dom[dom[n].root].root = 0
            /\ IframeOutcome(dom[n].root) = "enter"
         THEN dom[n].root
    ELSE -1

\* n matched the selector and passed the four filters of the scan of its document.
IsCandidate(n) ==
    /\ ScanFrameOf(n) # -1 /\ MatchesSelector(n) /\ PassesFilters(n, ScanFrameOf(n))

\* The positions of the element descriptors (not scroll regions) whose source is n.
ElementDescriptors(n) ==
    { i \in 1..Len(result) :
        result[i].src = n /\ ~result[i].isScrollRegion /\ ~result[i].isMainScrollbar }

HasDescriptor(n) == ElementDescriptors(n) # {}

ScrollDescriptors(n) == { i \in 1..Len(result) : result[i].src = n /\ result[i].isScrollRegion }

NotTiny(n) == dom[n].rect.width >= 5 /\ dom[n].rect.height >= 5

OverlapOf(a, b) ==
    OverlapX(dom[a].rect, AsArea(dom[b].rect)) * OverlapY(dom[a].rect, AsArea(dom[b].rect))

SmallerArea(a, b) == Min2(Area(dom[a].rect), Area(dom[b].rect))

\* The first interactive ancestor, from p upwards, holding more than 85% of n; 0 if none.
RECURSIVE FirstInteractiveContainer(_, _)
FirstInteractiveContainer(n, p) ==
    IF p = 0 THEN 0
    ELSE IF IsInteractiveElement(p) /\ ContainedIn(n, p) THEN p
    ELSE FirstInteractiveContainer(n, dom[p].parent)

\* C1 (as amended): a candidate that passed the four filters, scores 12 or more and is at
\* least 5 px wide and 5 px high is never a duplicate (isDuplicateInteractiveElement
\* returns false) and has a descriptor in the pass result, whatever interactive
\* ancestors contain it and whatever the ledger holds.
C1_FastPathKept ==
    /\ (lastDup.el # 0 /\ GetElementPriority(lastDup.el) >= 1200 /\ NotTiny(lastDup.el))
          => ~lastDup.dup
    /\ pc = "return" =>
          \A n \in Nodes :
              (IsCandidate(n) /\ GetElementPriority(n) >= 1200 /\ NotTiny(n))
                  => HasDescriptor(n)

\* C1 witness: a candidate scoring 12 or more, inside an interactive ancestor that
\* contains it, resolved against a non-empty ledger, was kept and emitted.
C1_FastPathKeptWitness ==
    /\ lastDup.el # 0 /\ GetElementPriority(lastDup.el) >= 1200 /\ NotTiny(lastDup.el)
    /\ lastDup.before # <<>>
    /\ FirstInteractiveContainer(lastDup.el, dom[lastDup.el].parent) # 0
    /\ ~lastDup.dup /\ HasDescriptor(lastDup.el)

\* C1 as stated: the same for every candidate rectangle size.
C1_AnySizeKept ==
    /\ (lastDup.el # 0 /\ GetElementPriority(lastDup.el) >= 1200) => ~lastDup.dup
    /\ pc = "return" =>
          \A n \in Nodes :
              (IsCandidate(n) /\ GetElementPriority(n) >= 1200) => HasDescriptor(n)

\* C2 as stated: of two sibling candidates, neither on the fast path, with no interactive
\* ancestor, that overlap by more than 60% of the smaller area and whose scores differ by
\* more than 2, exactly the higher-scoring one has a descriptor at the end of the pass.
C2_OneDescriptorForSiblings ==
    pc = "return" =>
        \A a, b \in Nodes :
            ( /\ a # b /\ dom[a].parent = dom[b].parent /\ dom[a].root = dom[b].root
              /\ IsCandidate(a) /\ IsCandidate(b) /\ NotTiny(a) /\ NotTiny(b)
              /\ ~IsHighPriorityElement(a) /\ ~IsHighPriorityElement(b)
              /\ FirstInteractiveContainer(a, dom[a].parent) = 0
              /\ FirstInteractiveContainer(b, dom[b].parent) = 0
              /\ 10 * OverlapOf(a, b) > 6 * SmallerArea(a, b)
              /\ GetElementPriority(a) - GetElementPriority(b) > 200 )
            => (HasDescriptor(a) /\ ~HasDescriptor(b))

\* C3: in every state of a pass the descriptor at position i carries highlightIndex i
\* (0-based) and the counter equals the number of descriptors, on every emitting path.
C3_ContiguousIndex ==
    /\ highlightIndex = Len(result)
    /\ \A i \in 1..Len(result) : result[i].highlightIndex = i - 1

\* C3 witness: a finished pass that emitted an ordinary candidate, a hidden file input,
\* an iframe candidate, a cross-domain placeholder, a scroll region and a main scrollbar.
C3_ContiguousIndexWitness ==
    /\ pc = "return"
    /\ \E i \in 1..Len(result) : result[i].isHiddenFileInput
    /\ \E i \in 1..Len(result) : result[i].inIframe # 0
    /\ \E i \in 1..Len(result) : result[i].crossDomain
    /\ \E i \in 1..Len(result) : result[i].isScrollRegion
    /\ \E i \in 1..Len(result) : result[i].isMainScrollbar
    /\ result[Len(result)].highlightIndex = Len(result) - 1

\* C4: the second of two consecutive passes over the unmodified page returns the same
\* ordered descriptor list as the first, with or without highlighting.
C4_RepeatablePass == (pc = "return" /\ passNo >= 2) => result = lastResult

\* C4 witness: a second pass with highlighting on, after a first pass that left overlay
\* nodes, a ledger and a counter behind, returned the same non-trivial list.
C4_RepeatablePassWitness ==
    /\ pc = "return" /\ passNo = 2 /\ args.doHighlightElements
    /\ Len(result) >= 3 /\ Len(container.children) >= 6
    /\ processedElementAreas # <<>>
    /\ result = lastResult

\* No other element of the top document overlaps the box of n.
Isolated(n) ==
    \A m \in Nodes \ {n} : DocOf(m) = 0 => OverlapOf(n, m) = 0

\* C5 as stated: with viewportExpansion = -1 every visible, interactive node of the top
\* document that matches the selector, is at least 5x5 and overlaps nothing has a
\* descriptor at the end of the pass, wherever its box lies.
C5_EveryNodeReported ==
    (pc = "return" /\ args.viewportExpansion = -1) =>
        \A n \in Nodes :
            ( /\ dom[n].root = 0 /\ MatchesSelector(n) /\ IsElementVisible(n)
              /\ IsInteractiveElement(n) /\ NotTiny(n) /\ Isolated(n) )
            => HasDescriptor(n)

\* The positions of all descriptors whose source is node n.
DescriptorsOf(n) == { i \in 1..Len(result) : result[i].src = n }

\* C6 as stated: an in-viewport, visible, interactive iframe whose document cannot be
\* accessed has exactly one descriptor at the end of the pass, flagged crossDomain and
\* isIframe, and no node inside it has a descriptor.
C6_OnePlaceholder ==
    pc = "return" =>
        \A f \in Nodes :
            ( /\ dom[f].tag = "iframe" /\ dom[f].root = 0 /\ dom[f].frame = "cross"
              /\ IsInViewport(f) /\ IsElementVisible(f) /\ IsInteractiveElement(f) )
            => /\ Cardinality(DescriptorsOf(f)) = 1
               /\ \A i \in DescriptorsOf(f) : result[i].crossDomain /\ result[i].isIframe
               /\ \A i \in 1..Len(result) :
                     result[i].src # 0 => dom[result[i].src].root # f

\* s is a textless i/span whose box lies inside the box of the button b that contains it.
IconInButton(s, b) ==
    /\ dom[s].tag \in {"i", "span"} /\ TrimmedText(s) = <<>>
    /\ dom[b].tag = "button" /\ b \in ChainSet(dom[s].parent)
    /\ dom[b].rect.left <= dom[s].rect.left /\ Right(dom[s].rect) <= Right(dom[b].rect)
    /\ dom[b].rect.top <= dom[s].rect.top /\ Bottom(dom[s].rect) <= Bottom(dom[b].rect)

\* s is such an icon, does not take the fast path of the resolver, and b is its first
\* interactive containing ancestor.
PlainIconInButton(s, b) ==
    /\ IconInButton(s, b) /\ NotTiny(s)
    /\ ~IsHighPriorityElement(s)
    /\ FirstInteractiveContainer(s, dom[s].parent) = b

\* C7 (as amended): a textless i/span that does not take the fast path (score below 12)
\* and whose first interactive containing ancestor is a button is rejected by the
\* resolver: it never gets a descriptor
\* and never enters the ledger, so the button is never compared with it; a button
\* candidate without interactive container whose only fellow candidates are such icons
\* is emitted.
C7_IconRejected ==
    \A s, b \in Nodes :
        PlainIconInButton(s, b) =>
            /\ ~HasDescriptor(s)
            /\ \A k \in 1..Len(processedElementAreas) :
                  processedElementAreas[k].isScrollbar \/ processedElementAreas[k].element # s
            /\ ( /\ pc = "return" /\ IsCandidate(b) /\ NotTiny(b)
                 /\ FirstInteractiveContainer(b, dom[b].parent) = 0
                 /\ \A m \in Nodes \ {b} : IsCandidate(m) => PlainIconInButton(m, b) )
               => HasDescriptor(b)

\* C7 witness: a finished pass over a 40x40 button candidate holding a 10x10 textless
\* span candidate emitted the button and not the span.
C7_IconRejectedWitness ==
    /\ pc = "return"
    /\ \E s, b \in Nodes :
          /\ PlainIconInButton(s, b) /\ IsCandidate(s) /\ IsCandidate(b)
          /\ dom[b].rect.width = 40 /\ dom[s].rect.width = 10
          /\ HasDescriptor(b) /\ ~HasDescriptor(s)

\* C7 as stated: whenever a button candidate contains a textless i/span candidate inside
\* its box, the button has a descriptor and the span has none.
C7_ButtonAlwaysWins ==
    pc = "return" =>
        \A s, b \in Nodes :
            (IconInButton(s, b) /\ IsCandidate(s) /\ IsCandidate(b))
                => (HasDescriptor(b) /\ ~HasDescriptor(s))

\* What C8 asks of an element: in the viewport, visible, topmost, at least 10x10 in client
\* size, overflow auto or scroll on an axis whose content exceeds the client box.
ScrollableElement(n) ==
    /\ dom[n].root = 0 /\ IsInViewport(n) /\ IsElementVisible(n) /\ IsTopElement(n)
    /\ dom[n].clientWidth >= 10 /\ dom[n].clientHeight >= 10
    /\ \/ /\ dom[n].scrollHeight > dom[n].clientHeight
          /\ {dom[n].overflow, dom[n].overflowY} \cap {"auto", "scroll"} # {}
       \/ /\ dom[n].scrollWidth > dom[n].clientWidth
          /\ {dom[n].overflow, dom[n].overflowX} \cap {"auto", "scroll"} # {}

\* Every axis of n that scrolls has a scrollbar at least 1 px thick.
HasThickScrollbars(n) ==
    /\ (HasVerticalScrollbar(n) => dom[n].rect.width - dom[n].clientWidth >= 1)
    /\ (HasHorizontalScrollbar(n) => dom[n].rect.height - dom[n].clientHeight >= 1)

\* A scroll region reported for an element before n overlaps n by more than 80% of the
\* smaller of the two areas.
CoveredByEarlierRegion(n) ==
    \E m \in Nodes :
        /\ m < n /\ ScrollDescriptors(m) # {}
        /\ 10 * OverlapOf(n, m) > 8 * SmallerArea(n, m)

ExactScrollDescriptor(n) ==
    /\ Cardinality(ScrollDescriptors(n)) = 1
    /\ \A i \in ScrollDescriptors(n) :
          result[i].maxScrollTop = dom[n].scrollHeight - dom[n].clientHeight

\* C8 (as amended): such an element yields exactly one scroll-region descriptor, with
\* maxScrollTop = scrollHeight - clientHeight, provided each of its scrolling axes has a
\* scrollbar at least 1 px thick and no scroll region reported earlier overlaps it by
\* more than 80% of the smaller area (which is the case of every enclosing region).
C8_ScrollRegionReported ==
    pc = "return" =>
        \A n \in Nodes :
            (ScrollableElement(n) /\ HasThickScrollbars(n) /\ ~CoveredByEarlierRegion(n))
                => ExactScrollDescriptor(n)

\* C8 witness: a region with scrollHeight 2000 and clientHeight 400 was reported once
\* with maxScrollTop 1600.
C8_ScrollRegionReportedWitness ==
    /\ pc = "return"
    /\ \E n \in Nodes :
          /\ ScrollableElement(n) /\ dom[n].scrollHeight = 2000 /\ dom[n].clientHeight = 400
          /\ Cardinality(ScrollDescriptors(n)) = 1
          /\ \A i \in ScrollDescriptors(n) : result[i].maxScrollTop = 1600

\* C8 as stated: the same for every scrollbar thickness and every enclosing region.
C8_AnyScrollRegionReported ==
    pc = "return" => \A n \in Nodes : ScrollableElement(n) => ExactScrollDescriptor(n)

\* C9: an element that passed every check of the scroll scan before the duplicate check
\* is left out only when an earlier scrollbar-flagged ledger record overlaps it by more
\* than 80% of the smaller area; ordinary records, whatever their overlap, never do it.
C9_OnlyScrollbarsSuppress ==
    pc = "return" =>
        \A n \in Nodes :
            (dom[n].root = 0 /\ IsScrollRegion(n) /\ ScrollDescriptors(n) = {})
                => \E k \in 1..Len(processedElementAreas) :
                      LET pa == processedElementAreas[k]
                      IN /\ pa.isScrollbar /\ pa.element < n
                         /\ 10 * (OverlapX(dom[n].rect, pa) * OverlapY(dom[n].rect, pa))
                               > 8 * Min2(Area(dom[n].rect), RectArea(pa))

\* C9 witness: a scroll region was reported although an ordinary ledger record covers
\* its whole box.
C9_OnlyScrollbarsSuppressWitness ==
    /\ pc = "return"
    /\ \E n \in Nodes :
          /\ dom[n].root = 0 /\ IsScrollRegion(n) /\ ScrollDescriptors(n) # {}
          /\ \E k \in 1..Len(processedElementAreas) :
                LET pa == processedElementAreas[k]
                IN /\ ~pa.isScrollbar
                   /\ OverlapX(dom[n].rect, pa) * OverlapY(dom[n].rect, pa) = Area(dom[n].rect)

\* The nearest label among the ancestors of n, found by depth: the label ancestor that
\* has no other label ancestor of n below it; 0 when n has no label ancestor.
EnclosingLabel(n) ==
    LET labels == { a \in ChainSet(dom[n].parent) : dom[a].tag = "label" }
    IN IF labels = {} THEN 0
       ELSE CHOOSE l \in labels : \A m \in labels : m \in ChainSet(l)

\* The text nodes of label l that are not inside an input, select, textarea or button
\* below l, in document order.
RECURSIVE TextOfNodes(_)
TextOfNodes(ns) == IF ns = <<>> THEN <<>> ELSE dom[Head(ns)].text \o TextOfNodes(Tail(ns))

LabelTextOutsideControls(l) ==
    TextOfNodes(InDocOrder(
        { m \in Nodes :
            /\ l \in ChainSet(m) /\ dom[m].root = dom[l].root
            /\ \A c \in ChainSet(m) \ ChainSet(l) :
                  dom[c].tag \notin {"input", "select", "textarea", "button"} }))

\* C10: the descriptor of an input, select or textarea that has no label[for] and sits
\* inside a label carries as labelText the text of the nearest enclosing label without
\* the text of its input, select, textarea and button descendants, trimmed.
C10_ImplicitLabelText ==
    \A i \in 1..Len(result) :
        ( /\ result[i].src # 0 /\ ~result[i].isScrollRegion
          /\ dom[result[i].src].tag \in {"input", "select", "textarea"}
          /\ ExplicitLabel(result[i].src) = 0
          /\ EnclosingLabel(result[i].src) # 0 )
        => /\ result[i].labelText = Trim(LabelTextOutsideControls(EnclosingLabel(result[i].src)))
           /\ result[i].labelElement = EnclosingLabel(result[i].src)

\* C10 witness: a control inside <label> Email </label>, beside a button with text, was
\* emitted with labelText "Email".
C10_ImplicitLabelTextWitness ==
    \E i \in 1..Len(result) :
        /\ result[i].src # 0
        /\ dom[result[i].src].tag \in {"input", "select", "textarea"}
        /\ ExplicitLabel(result[i].src) = 0
        /\ EnclosingLabel(result[i].src) # 0
        /\ TextContent(EnclosingLabel(result[i].src)) # LabelTextOutsideControls(EnclosingLabel(result[i].src))
        /\ result[i].labelText = <<"E", "m", "a", "i", "l">>

\* The positions of the synthetic descriptors of the window's own scrollbars.
MainDescriptors(tagName) ==
    { i \in 1..Len(result) : result[i].isMainScrollbar /\ result[i].tagName = tagName }

VerticalThickness == win.innerWidth - win.clientWidth
HorizontalThickness == win.innerHeight - win.clientHeight

\* One main scrollbar descriptor is well formed: its box is at least 8 px thick and it
\* is flagged overlay exactly when the measured thickness is 0.
MainDescriptorShape(i, boxThickness, thickness) ==
    /\ boxThickness >= 8
    /\ (thickness = 0 => result[i].isOverlayScrollbar)
    /\ (thickness > 0 => ~result[i].isOverlayScrollbar)

\* C18 (as amended): a pass emits at most one vertical and one horizontal main scrollbar
\* descriptor: the vertical one iff scrollHeight > innerHeight and the measured
\* thickness innerWidth - clientWidth is not negative, the horizontal one iff
\* scrollWidth > innerWidth and innerHeight - clientHeight is not negative; with
\* thickness 0 the descriptor is emitted, its box is at least 8 px thick and
\* isOverlayScrollbar is true, with a positive thickness isOverlayScrollbar is false.
C18_MainScrollbars ==
    pc = "return" =>
        /\ Cardinality(MainDescriptors("scrollbar:main-vertical")) <= 1
        /\ Cardinality(MainDescriptors("scrollbar:main-horizontal")) <= 1
        /\ \A i \in 1..Len(result) :
              result[i].isMainScrollbar =>
                  result[i].tagName \in {"scrollbar:main-vertical", "scrollbar:main-horizontal"}
        /\ (MainDescriptors("scrollbar:main-vertical") # {}
               <=> (win.scrollHeight > win.innerHeight /\ VerticalThickness >= 0))
        /\ (MainDescriptors("scrollbar:main-horizontal") # {}
               <=> (win.scrollWidth > win.innerWidth /\ HorizontalThickness >= 0))
        /\ \A i \in MainDescriptors("scrollbar:main-vertical") :
              MainDescriptorShape(i, result[i].boundingRect.width, VerticalThickness)
        /\ \A i \in MainDescriptors("scrollbar:main-horizontal") :
              MainDescriptorShape(i, result[i].boundingRect.height, HorizontalThickness)

\* C18 witness: a pass over a window with a zero-width vertical scrollbar and a 15 px
\* horizontal one emitted both, the first 8 px wide and flagged overlay, the second not.
C18_MainScrollbarsWitness ==
    /\ pc = "return" /\ VerticalThickness = 0 /\ HorizontalThickness = 15
    /\ \E i \in MainDescriptors("scrollbar:main-vertical") :
          result[i].boundingRect.width = 8 /\ result[i].isOverlayScrollbar
    /\ \E i \in MainDescriptors("scrollbar:main-horizontal") :
          result[i].boundingRect.height = 15 /\ ~result[i].isOverlayScrollbar

\* C18 as stated: the vertical descriptor is emitted iff scrollHeight > innerHeight and
\* the horizontal one iff scrollWidth > innerWidth.
C18_OverflowAlone ==
    pc = "return" =>
        /\ (MainDescriptors("scrollbar:main-vertical") # {}
               <=> win.scrollHeight > win.innerHeight)
        /\ (MainDescriptors("scrollbar:main-horizontal") # {}
               <=> win.scrollWidth > win.innerWidth)

\* The pattern cases of the ancestor walk for candidate n and ancestor p.
KeepBothPattern(n, p) ==
    \/ (dom[n].tag = "a" /\ dom[p].tag = "li") \/ (dom[n].tag = "li" /\ dom[p].tag = "a")
    \/ (dom[n].tag = "button" /\ dom[p].tag = "form")
    \/ (dom[n].tag = "input" /\ dom[p].tag = "label")

IconPattern(n, p) ==
    dom[n].tag \in {"i", "span"} /\ (dom[p].tag = "button" \/ dom[p].role = "button")

\* The last candidate resolved went through the ancestor walk (it is neither tiny nor
\* on the fast path) and the walk found an interactive ancestor holding more than 85%
\* of it, while the ledger was empty: the verdict is the one of the ancestor check.
WalkDecided ==
    /\ lastDup.el # 0 /\ NotTiny(lastDup.el) /\ ~IsHighPriorityElement(lastDup.el)
    /\ FirstInteractiveContainer(lastDup.el, dom[lastDup.el].parent) # 0
    /\ lastDup.before = <<>>

WalkAncestor == FirstInteractiveContainer(lastDup.el, dom[lastDup.el].parent)
WalkDiff == GetElementPriority(lastDup.el) - GetElementPriority(WalkAncestor)

\* The near-tie heuristics: a candidate under 20% of the ancestor's area, or with its
\* own shorter text, passes.
NearTiePasses(n, p) ==
    \/ 10 * Area(dom[n].rect) < 2 * Area(dom[p].rect)
    \/ /\ TrimmedText(n) # <<>> /\ TrimmedText(n) # TrimmedText(p)
       /\ 10 * Len(TrimmedText(n)) < 7 * Len(TrimmedText(p))

FrameOffset(iframe) ==
    IF iframe = 0 THEN [left |-> 0, top |-> 0]
    ELSE [left |-> dom[iframe].rect.left, top |-> dom[iframe].rect.top]

\* C16: every element descriptor's boundingRect is in top-level viewport coordinates:
\* for a node of the top document it is the node's rect, for a node inside a same-origin
\* iframe its top and left are the frame-local rect plus the iframe's offset.
C16_ViewportCoordinates ==
    pc = "return" =>
        \A i \in 1..Len(result) :
            (/\ ~result[i].isScrollRegion /\ ~result[i].isMainScrollbar
             /\ ~result[i].isHiddenFileInput /\ result[i].src # 0) =>
                /\ result[i].boundingRect.left
                      = dom[result[i].src].rect.left + FrameOffset(result[i].inIframe).left
                /\ result[i].boundingRect.top
                      = dom[result[i].src].rect.top + FrameOffset(result[i].inIframe).top

\* The boundary elements (shadow hosts and iframe elements) around node n, innermost
\* first.
RECURSIVE Boundaries(_)
Boundaries(n) == IF dom[n].root = 0 THEN <<>> ELSE <<dom[n].root>> \o Boundaries(dom[n].root)

BoundarySet(n) == { Boundaries(n)[i] : i \in 1..Len(Boundaries(n)) }

\* The offset of n's document in the top-level viewport: the boxes of the iframes around it.
RECURSIVE OffsetLeft(_)
OffsetLeft(n) ==
    IF dom[n].root = 0 THEN 0
    ELSE (IF dom[dom[n].root].tag = "iframe" THEN dom[dom[n].root].rect.left ELSE 0)
            + OffsetLeft(dom[n].root)

RECURSIVE OffsetTop(_)
OffsetTop(n) ==
    IF dom[n].root = 0 THEN 0
    ELSE (IF dom[dom[n].root].tag = "iframe" THEN dom[dom[n].root].rect.top ELSE 0)
            + OffsetTop(dom[n].root)

\* The box of n lies inside the window once its document's offset is added.
InWindow(n) ==
    /\ dom[n].rect.left + OffsetLeft(n) >= 0 /\ dom[n].rect.top + OffsetTop(n) >= 0
    /\ Right(dom[n].rect) + OffsetLeft(n) <= win.innerWidth
    /\ Bottom(dom[n].rect) + OffsetTop(n) <= win.innerHeight

\* Nothing but the hosts around n is painted where n is.
Exposed(n) ==
    \A m \in Nodes \ {n} :
        (DocOf(m) = DocOf(n) /\ OverlapOf(n, m) > 0) => m \in BoundarySet(n)

\* Every boundary around n can be entered: it is visible and in view, and an iframe is
\* same-origin.
OpenBoundaries(n) ==
    \A b \in BoundarySet(n) :
        /\ dom[b].styleVisible /\ InWindow(b)
        /\ dom[b].tag = "iframe" => dom[b].frame = "same"

\* C17: an interactive, visible, topmost node yields a descriptor at any nesting depth
\* of boundaries: inside a shadow root whose host is inside another shadow root, inside
\* a same-origin iframe nested in another, inside a shadow root within an iframe.
C17_EveryDepth ==
    pc = "return" =>
        \A n \in Nodes :
            ( /\ Len(Boundaries(n)) >= 2 /\ OpenBoundaries(n)
              /\ MatchesSelector(n) /\ IsInteractiveElement(n) /\ IsElementVisible(n)
              /\ NotTiny(n) /\ InWindow(n) /\ Exposed(n) )
            => HasDescriptor(n)

\* The documents the pass scans: the top document and every iframe it enters.
ScannedDocs == {0} \cup { f \in Nodes : dom[f].root = 0 /\ dom[f].tag = "iframe"
                                          /\ IframeOutcome(f) = "enter" }

\* No exception leaves the two loops of processElementsInDocument over document d.
DocumentLoopsRun(d) ==
    /\ ~ScanThrows(QuerySelectorAll(d), d)
    /\ ~ResolveThrows(Candidates(d, d))

\* No exception is raised while the shadow root of host h (in document d) is processed.
ShadowRootRuns(h, d) ==
    /\ ~ScanThrows(QuerySelectorAll(h), d)
    /\ ~ResolveThrows(Candidates(h, d))

\* Node m, scanned with document d, passes the filters and nothing can make it a
\* duplicate: no interactive ancestor holds it and no other box overlaps it.
SureCandidate(m, d) ==
    /\ MatchesSelector(m) /\ ScanOutcome(m, d) = "pass" /\ NotTiny(m)
    /\ FirstInteractiveContainer(m, dom[m].parent) = 0
    /\ \A k \in Nodes \ {m} : OverlapOf(m, k) = 0 \/ k \in BoundarySet(m)

\* A hidden file input of document d whose visible parent is found without exception.
SureFileInput(m, d) ==
    /\ dom[m].root = d /\ IsHiddenFileInput(m) /\ ~RectThrows(m)
    /\ VisibleParent(dom[m].parent, d) > 0

\* The elements for which some host query fails.
FaultyNodes == { n \in Nodes : dom[n].fault # "none" }

\* C14: when a rect, style or hit-test query raises for one candidate node during the
\* candidate scan of a document, only that node is skipped: the other candidates of the
\* document are still emitted, and the hidden-file-input and shadow-root steps still run.
\* (Stated for documents with a single failing element.)
C14_OnlyFaultyNodeSkipped ==
    (pc = "return" /\ Cardinality(FaultyNodes) = 1) =>
        \A d \in ScannedDocs :
            /\ \A m \in Nodes :
                  (dom[m].root = d /\ dom[m].fault = "none" /\ SureCandidate(m, d))
                      => HasDescriptor(m)
            /\ \A m \in Nodes : SureFileInput(m, d) => HasDescriptor(m)
            /\ \A h \in Nodes :
                  (/\ dom[h].root = d /\ dom[h].shadowHost
                   /\ \A g \in Nodes : (dom[g].root = d /\ dom[g].shadowHost)
                                          => ShadowRootRuns(g, d)) =>
                      \A m \in Nodes :
                          (dom[m].root = h /\ SureCandidate(m, d)) => HasDescriptor(m)

\* C13: a failure raised while one boundary (an iframe document or a shadow root) is
\* processed discards at most that boundary's results: the pass still returns a result,
\* and every other iframe document and every other shadow root, also of a later host in
\* the same document, is processed and its descriptors are emitted. (Stated for
\* failures that lie inside iframe documents and shadow roots.)
C13_BoundaryIsolation ==
    (\A n \in FaultyNodes : dom[n].root # 0) =>
    /\ ~thrown
    /\ pc = "return" =>
          \A d \in ScannedDocs :
              /\ DocumentLoopsRun(d) =>
                    \A m \in Nodes :
                        (dom[m].root = d /\ SureCandidate(m, d)) => HasDescriptor(m)
              /\ DocumentLoopsRun(d) =>
                    \A h \in Nodes :
                        (dom[h].root = d /\ dom[h].shadowHost /\ ShadowRootRuns(h, d)) =>
                            \A m \in Nodes :
                                (dom[m].root = h /\ SureCandidate(m, d))
                                    => HasDescriptor(m)

\* C11: a rect or style value cached before a change of the window size is never
\* returned by getCachedBoundingRect / getCachedComputedStyle in a pass that starts
\* after the change: while a pass runs, every entry of the cache was read since the
\* last change of the window size.
C11_NoStaleEntry ==
    pc # "idle" =>
        /\ \A e \in DOM_CACHE.boundingRects : e.epoch = sizeEpoch
        /\ \A e \in DOM_CACHE.computedStyles : e.epoch = sizeEpoch

\* C11 witness: an element reported by the pass before the resize (its rect was cached
\* then) is held by the cache of a pass after the resize, with a value read after it.
C11_NoStaleEntryWitness ==
    /\ pc = "return" /\ passNo = 2 /\ sizeEpoch = 1
    /\ \E e \in DOM_CACHE.boundingRects :
          /\ e.epoch = 1
          /\ \E i \in 1..Len(lastResult) : lastResult[i].src = e.el
    /\ \E e \in DOM_CACHE.computedStyles : e.epoch = 1

\* The label nodes of the highlight container, and the descriptors the pass highlighted.
LabelNodes == { i \in 1..Len(container.children) : container.children[i].kind = "label" }

Highlighted == { j \in 1..Len(result) : ShouldHighlight(result[j].highlightIndex) }

\* C19: highlight rendering is idempotent across passes: every overlay and label node of
\* an earlier pass is removed when a pass starts, so the container holds only nodes
\* created for the descriptors of the running pass (one label per highlighted
\* descriptor), and two consecutive highlighting passes over an unchanged tree leave the
\* same overlay set as one.
C19_OverlaysOfLastPass ==
    /\ pc # "idle" =>
          \A i \in 1..Len(container.children) :
              \E j \in Highlighted :
                  result[j].highlightIndex = container.children[i].index
    /\ pc = "return" => Cardinality(LabelNodes) = Cardinality(Highlighted)
    /\ (pc = "return" /\ passNo >= 2 /\ lastCall.args = args /\ lastCall.win = win)
          => container.children = lastCall.overlays

\* C19 witness: a second highlighting pass over the unchanged tree ended with the three
\* or more overlays of the first, and nothing else, in the container.
C19_OverlaysOfLastPassWitness ==
    /\ pc = "return" /\ passNo = 2 /\ args.doHighlightElements
    /\ lastCall.args = args /\ lastCall.win = win
    /\ Cardinality(LabelNodes) >= 3 /\ container.children = lastCall.overlays

C15_ErrorOrCompleteResult ==
    analyzer.state = "returned" =>
        IF analyzer.typeofDomTreeResult # "function" \/ thrown
        THEN /\ DOMAIN analyzer.value = {"error"}
             /\ Len(posted) = analyzer.postedAtCall
        ELSE /\ DOMAIN analyzer.value = {"viewportSize", "interactiveElements"}
             /\ analyzer.value.interactiveElements = result
             /\ analyzer.value = AnalysisResult
             /\ Len(posted) = analyzer.postedAtCall + 1
             /\ posted[Len(posted)] =
                    [type |-> "DOM_ANALYSIS_RESULT", result |-> analyzer.value]

\* C15 witness: a first call returned the complete result and posted it; a second call,
\* whose analysis raised after descriptors had been collected, returned the error record
\* and posted nothing.
C15_ErrorOrCompleteResultWitness ==
    /\ analyzer.state = "returned" /\ passNo = 2 /\ thrown
    /\ DOMAIN analyzer.value = {"error"}
    /\ result # <<>>
    /\ Len(posted) = 1 /\ posted[1].result.interactiveElements = lastResult
    /\ lastResult # <<>>

\* The node or one of its ancestors is a recognised cookie or consent container.
InConsentContainer(n) ==
    \E a \in ChainSet(n) : BannerAncestor(a) \/ ConsentAncestor(a)

ClickFamily == {"click", "mousedown", "mouseup", "touchstart", "touchend"}

\* Rules 2 to 13 of the interactivity cascade as the specification words them, each read
\* as widely as its wording allows.
MatchesCascadeRule(n) ==
    LET e == dom[n] IN
        \/ e.cursor \in {"pointer", "move", "text", "grab", "cell"}
        \/ /\ InConsentContainer(n)
           /\ \/ e.tag = "button" \/ e.role = "button" \/ OnclickProp(n)
              \/ \E c \in e.classes : "button" \in ClassWords(c)
              \/ e.labelWords \cap {"accept", "reject"} # {}
        \/ e.tag \in InteractiveTags
        \/ e.role \in InteractiveRoles \/ e.ariaRole \in InteractiveRoles
        \/ (e.tabindex # "" /\ e.tabindex # "-1")
        \/ HasAttr(n, "data-action") \/ HasAttr(n, "data-toggle")
        \/ HasAttr(n, "aria-haspopup")
        \/ e.classes \cap {"button", "dropdown-toggle"} # {}
        \/ e.idWords \cap {"cookie", "consent", "notice", "onetrust"} # {}
        \/ e.labelWords \cap {"cookie", "consent"} # {}
        \/ e.classes \cap {"otCenterRounded", "ot-sdk-container", "onetrust", "cookie",
                           "consent"} # {}
        \/ OnclickProp(n) \/ HasAttr(n, "ng-click") \/ HasAttr(n, "@click")
        \/ HasAttr(n, "v-on:click")
        \/ (e.listeners \cup e.inlineHandlers) \cap ClickFamily # {}
        \/ HasAttr(n, "aria-expanded") \/ HasAttr(n, "aria-pressed")
        \/ HasAttr(n, "aria-selected") \/ HasAttr(n, "aria-checked")
        \/ IsContentEditableProp(n) \/ "tinymce" \in e.idWords
        \/ "mce-content-body" \in e.classes
        \/ HasAttr(n, "draggable") \/ e.tag = "img" \/ (e.tag = "a" /\ HasAttr(n, "href"))

\* The markers the code tests that no rule of the cascade names.
UnlistedMarker(n) ==
    \/ dom[n].classes \cap {"address-input__container__input", "nav-btn", "pull-left"} # {}
    \/ HasAttr(n, "data-index")
    \/ HasAttr(n, "data-nosnippet")

C22_InlineHandlerFallback ==
    (/\ probe.fn = "isInteractiveElement"
     /\ win.registry # "ok" /\ ~StyleThrows(probe.node)
     /\ dom[probe.node].role # "presentation"
     /\ dom[probe.node].inlineHandlers \cap ClickFamily # {})
        => probe.value = "yes"

\* Some query of the topmost test raises for the probed node: its rect, the rect of its
\* iframe, or the hit test at its centre.
TopQueryFails ==
    \/ RectThrows(probe.node) \/ HitThrows(probe.node)
    \/ (probe.iframe # 0 /\ RectThrows(probe.iframe))

ProbedControl ==
    probe.fn = "createElementData" /\ IsFormControl(probe.node)

\* The label sources of the probed control.
ProbedExplicitText == ExplicitLabelText(ExplicitLabel(probe.node))

ProbedImplicit == ImplicitLabel(dom[probe.node].parent)

ProbedLabelledby == TargetTexts(dom[probe.node].labelledby)

ProbedDescribedby == TargetTexts(dom[probe.node].describedby)

\* C24: labelText follows a strict precedence: the text of an explicit label[for=id]
\* when one exists with non-empty text, otherwise the enclosing implicit label's stripped
\* text, otherwise it is absent. The joined text of the aria-labelledby targets is
\* recorded in ariaLabelledbyText and that of the aria-describedby targets in
\* ariaDescribedbyText, whether or not a label was found; neither contributes to
\* labelText.
C24_LabelPrecedence ==
    ProbedControl =>
        /\ probe.value.labelText =
              IF ProbedExplicitText # <<>> THEN ProbedExplicitText
              ELSE IF ProbedImplicit # 0
                   THEN Trim(CloneTextWithoutControls(ProbedImplicit))
              ELSE <<>>
        /\ \A i \in 1..Len(probe.value.labelText) :
              probe.value.labelText[i] \notin {"A", "B"}
        /\ probe.value.ariaLabelledbyText = JoinTexts(ProbedLabelledby)
        /\ probe.value.ariaDescribedbyText = JoinTexts(ProbedDescribedby)

\* C24 witness: a control without any label whose two aria-labelledby targets and one
\* aria-describedby target exist got no labelText, "A B" as ariaLabelledbyText and "B" as
\* ariaDescribedbyText.
C24_LabelPrecedenceWitness ==
    /\ ProbedControl
    /\ ProbedExplicitText = <<>> /\ ProbedImplicit = 0
    /\ probe.value.labelText = <<>>
    /\ probe.value.ariaLabelledbyText = <<"A", " ", "B">>
    /\ probe.value.ariaDescribedbyText = <<"B">>

\* C24 as stated: labelText is the explicit label's text when non-empty, otherwise the
\* implicit label's stripped text, otherwise the joined text of the aria-labelledby
\* targets.
C24_LabelledbyFallback ==
    ProbedControl =>
        probe.value.labelText =
            IF ProbedExplicitText # <<>> THEN ProbedExplicitText
            ELSE IF ProbedImplicit # 0
                 THEN Trim(CloneTextWithoutControls(ProbedImplicit))
            ELSE JoinTexts(ProbedLabelledby)

\* ---------------------------------------------------------------------------- C25
\* The four filters of a scan answered true for node n, scanned through iframe.
PassedFour(n, iframe) ==
    /\ ViewportOutcome(n, iframe) = "yes"
    /\ VisibleOutcome(n) = "yes"
    /\ TopOutcome(n, iframe) = "yes"
    /\ InteractiveOutcome(n) = "yes"

\* Descriptor i was produced by a candidate scan: it is no scroll region, no
\* hidden-file-input proxy and no cross-domain iframe placeholder.
OrdinaryDescriptor(i) ==
    /\ ~result[i].isScrollRegion /\ ~result[i].isMainScrollbar
    /\ ~result[i].isHiddenFileInput
    /\ ~(result[i].isIframe /\ result[i].crossDomain)

\* Node n of the scanned scope got as far as a query that raises: every filter before
\* that query answered true.
RaisesInOrder(n, iframe) ==
    \/ ViewportOutcome(n, iframe) = "throw"
    \/ /\ ViewportOutcome(n, iframe) = "yes"
       /\ \/ VisibleOutcome(n) = "throw"
          \/ /\ VisibleOutcome(n) = "yes"
             /\ \/ TopOutcome(n, iframe) = "throw"
                \/ /\ TopOutcome(n, iframe) = "yes"
                   /\ \/ InteractiveOutcome(n) = "throw"
                      \/ /\ InteractiveOutcome(n) = "yes"
                         /\ RectThrows(n) \/ DuplicateCheckThrows(n)

\* C25: every node handed to the dedup resolver, and every ordinary descriptor produced
\* by a candidate scan (main document, same-origin iframe, shadow root), belongs to a
\* node that passed the viewport, visibility, topmost and interactivity filters in this
\* pass; the filters are evaluated in that order and a later one is never evaluated for
\* a node an earlier one rejected, so that a scan is only ever ended by a query of a
\* node whose earlier filters all answered true.
C25_FourFiltersInOrder ==
    /\ pc = "dedup" =>
          /\ \A i \in 1..Len(queue) :
                MatchesSelector(queue[i]) /\ PassedFour(queue[i], ctx.iframe)
          /\ ctx.aborted =>
                \E n \in Nodes : dom[n].root = ctx.iframe /\ RaisesInOrder(n, ctx.iframe)
    /\ pc # "idle" =>
          \A i \in 1..Len(result) :
              OrdinaryDescriptor(i) => PassedFour(result[i].src, result[i].inIframe)

\* A pass returns ordinary descriptors of the main document, of an iframe and of a
\* shadow root, while an element of the main document that the viewport filter rejects
\* has a style query that raises.
C25_FourFiltersInOrderWitness ==
    /\ pc = "return" /\ ~thrown
    /\ \E n \in Nodes :
          dom[n].root = 0 /\ StyleThrows(n) /\ ViewportOutcome(n, 0) = "no"
    /\ \E i \in 1..Len(result) :
          OrdinaryDescriptor(i) /\ result[i].inIframe = 0 /\ result[i].shadowHost = 0
    /\ \E i \in 1..Len(result) : OrdinaryDescriptor(i) /\ result[i].inIframe # 0
    /\ \E i \in 1..Len(result) : OrdinaryDescriptor(i) /\ result[i].shadowHost # 0

\* ---------------------------------------------------------------------------- C26
\* The appended script elements with the given name.
Injected(scriptName) ==
    { i \in 1..Len(content.scripts) : content.scripts[i].name = scriptName }

Loaded(scriptName) ==
    \E i \in Injected(scriptName) : content.scripts[i].state = "loaded"

Notified(status) ==
    \E k \in 1..Len(content.sent) :
        content.sent[k].action = "scriptInjected" /\ content.sent[k].status = status

\* C26: for any number of executions of the content script on the same document,
\* buildDOMTree.js and pageScript.js are each injected at most once; pageScript.js is
\* injected only after buildDOMTree.js has fired onload; the "success" notification is
\* sent only after both scripts have loaded; and a load failure of either script sends
\* an "error" notification and never a "success" one.
C26_InjectedOnceInOrder ==
    /\ Cardinality(Injected("buildDOMTree.js")) <= 1
    /\ Cardinality(Injected("pageScript.js")) <= 1
    /\ Injected("pageScript.js") # {} => Loaded("buildDOMTree.js")
    /\ Notified("success") => Loaded("buildDOMTree.js") /\ Loaded("pageScript.js")
    /\ (\E i \in 1..Len(content.scripts) : content.scripts[i].state = "failed")
          => Notified("error") /\ ~Notified("success")

\* The content script has run more than once and both scripts have loaded.
C26_InjectedOnceInOrderWitness ==
    /\ content.runs >= 2
    /\ Loaded("buildDOMTree.js") /\ Loaded("pageScript.js") /\ Notified("success")

\* ---------------------------------------------------------------------------- C27
\* The source nodes of the ordinary descriptors of the result.
OrdinarySources == { result[i].src : i \in { j \in 1..Len(result) : OrdinaryDescriptor(j) } }

\* The source nodes of the non-scrollbar entries of the processed-area ledger.
LedgerSources ==
    { processedElementAreas[k].element :
        k \in { j \in 1..Len(processedElementAreas) : ~processedElementAreas[j].isScrollbar } }

\* C27: at the end of every pass the source nodes of the ordinary descriptors of the
\* result are the source nodes of the non-scrollbar entries of the processed-area
\* ledger: the descriptor of a region that a later candidate replaced is not in the
\* returned list.
C27_LedgerMatchesResult ==
    pc = "return" => OrdinarySources = LedgerSources

\* ---------------------------------------------------------------------------- C28
\* The last call of isDuplicateInteractiveElement was made by the second loop of the
\* document being processed, and nothing has touched the ledger since.
AfterDuplicateCheck ==
    /\ pc = "dedup" /\ lastDup.el # 0 /\ dom[lastDup.el].root = ctx.iframe

\* C28: within one call of isDuplicateInteractiveElement, ledger entries are removed
\* only if the call ends by keeping the candidate: a call that rejects its candidate,
\* also after the candidate replaced an overlapping entry, leaves the ledger exactly
\* as it was before the call.
C28_RejectionKeepsLedger ==
    (AfterDuplicateCheck /\ lastDup.dup) => processedElementAreas = lastDup.before

\* ---------------------------------------------------------------------------- C29
\* The entries of a ledger recorded for nodes of document doc, and those recorded for
\* nodes of the other documents.
OwnEntries(ledger, doc) ==
    LET Own(entry) == DocOf(entry.element) = doc IN SelectSeq(ledger, Own)

ForeignEntries(ledger, doc) ==
    LET Foreign(entry) == DocOf(entry.element) # doc IN SelectSeq(ledger, Foreign)

\* C29: the dedup resolver compares a candidate only with ledger regions recorded in
\* the candidate's own coordinate space: a candidate is rejected only if the regions
\* of its own document reject it, and a call never removes a region recorded for a
\* node of another document.
C29_SameCoordinateSpace ==
    AfterDuplicateCheck =>
        /\ lastDup.dup =>
              IsDuplicateInteractiveElement(
                  lastDup.el, OwnEntries(lastDup.before, ctx.iframe)).dup
        /\ ForeignEntries(processedElementAreas, ctx.iframe)
              = ForeignEntries(lastDup.before, ctx.iframe)

\* ---------------------------------------------------------------------------- C30
\* C30: no tree node is the source of more than one non-scroll-region descriptor in a
\* single pass: a node emitted by the candidate scan of its document is not emitted a
\* second time as a hidden-file-input proxy, as a cross-domain iframe placeholder, or
\* by the scan of another boundary.
C30_OneDescriptorPerNode ==
    pc = "return" => \A n \in Nodes : Cardinality(ElementDescriptors(n)) <= 1

====
